---------------------------- MODULE Spec2Model ----------------------------
(***************************************************************************)
(* A model of the backchat retrieval-augmented chat backend:               *)
(* the rag module (chunking, embedding client, cosine ranking, context     *)
(* retrieval, knowledge loading), the groundedness validator and the /chat *)
(* request handlers with their session store, in their several revisions.  *)
(*                                                                         *)
(* Texts are sequences of one-character strings.  A score is the exact     *)
(* real number sgn * sqrt(n / d) kept as the record [s, n, d] in lowest    *)
(* terms, so that cosines of integer vectors compare without rounding.     *)
(***************************************************************************)
EXTENDS Integers, Sequences, FiniteSets, TLC

(***************************************************************************)
(* Bounds of the model.                                                    *)
(***************************************************************************)
MaxChunks == 2
MaxTopN == 2
MaxMinWords == 3
MaxCtxChunks == 2

(***************************************************************************)
(* Text: String.prototype.trim, split(" "), join("\n\n").                  *)
(***************************************************************************)
Min(a, b) == IF a <= b THEN a ELSE b

IsSpace(c) == c \in {" ", "\n", "\t"}

RECURSIVE TrimLeft(_)
TrimLeft(t) ==
  IF t = <<>> THEN <<>>
  ELSE IF IsSpace(Head(t)) THEN TrimLeft(Tail(t)) ELSE t

RECURSIVE TrimRight(_)
TrimRight(t) ==
  IF t = <<>> THEN <<>>
  ELSE IF IsSpace(t[Len(t)]) THEN TrimRight(SubSeq(t, 1, Len(t) - 1)) ELSE t

Trim(t) == TrimRight(TrimLeft(t))

\* text.split(sep) for a one-character separator: the pieces between
\* separators, empty pieces included ("a  b".split(" ") is ["a", "", "b"]).
RECURSIVE SplitOn(_, _)
SplitOn(t, sep) ==
  IF \A i \in 1..Len(t) : t[i] # sep THEN <<t>>
  ELSE LET k == CHOOSE i \in 1..Len(t) :
                  t[i] = sep /\ \A j \in 1..(i - 1) : t[j] # sep
       IN <<SubSeq(t, 1, k - 1)>> \o SplitOn(SubSeq(t, k + 1, Len(t)), sep)

\* r.text.split(" ").length, the length test of retrieveContext.
SplitLength(t) == Len(SplitOn(t, " "))

\* The number of words of a text: its maximal runs of non-blank characters.
WordCount(t) ==
  Cardinality({i \in 1..Len(t) :
                 ~IsSpace(t[i]) /\ (i = 1 \/ IsSpace(t[i - 1]))})

\* relevant.map(r => r.text).join("\n\n")
RECURSIVE JoinBlank(_)
JoinBlank(ts) ==
  IF ts = <<>> THEN <<>>
  ELSE IF Len(ts) = 1 THEN ts[1]
  ELSE ts[1] \o <<"\n", "\n">> \o JoinBlank(Tail(ts))

(***************************************************************************)
(* Scores.                                                                 *)
(***************************************************************************)
RECURSIVE GCD(_, _)
GCD(a, b) == IF b = 0 THEN a ELSE GCD(b, a % b)

Sign(x) == IF x > 0 THEN 1 ELSE IF x < 0 THEN -1 ELSE 0

\* sgn * sqrt(n / d), d > 0, in lowest terms.
MkScore(sgn, n, d) ==
  IF sgn = 0 \/ n = 0 THEN [s |-> 0, n |-> 0, d |-> 1]
  ELSE LET g == GCD(n, d) IN [s |-> sgn, n |-> n \div g, d |-> d \div g]

\* p / q as a score (q > 0).
Ratio(p, q) == MkScore(Sign(p), p * p, q * q)

\* -1, 0 or 1 as x is below, equal to or above y.
Cmp(x, y) ==
  IF x.s # y.s THEN (IF x.s > y.s THEN 1 ELSE -1)
  ELSE IF x.s = 0 THEN 0
  ELSE LET l == x.n * y.d
           r == y.n * x.d
       IN IF l = r THEN 0
          ELSE IF (l > r) = (x.s = 1) THEN 1 ELSE -1

Geq(x, y) == Cmp(x, y) >= 0
Lt(x, y) == Cmp(x, y) < 0

RECURSIVE SumTo(_, _)
\* f[1] + ... + f[k]
SumTo(f, k) == IF k = 0 THEN 0 ELSE f[k] + SumTo(f, k - 1)

\* The cosine with the magnitude of a taken for both factors.
cosineSimilarityByMagA(a, b) ==
  LET length == Min(Len(a), Len(b))
      dot == SumTo([i \in 1..length |-> a[i] * b[i]], length)
      magA == SumTo([i \in 1..length |-> a[i] * a[i]], length)
  IN IF length = 0 THEN MkScore(0, 0, 1)
     ELSE IF magA * magA = 0 THEN MkScore(0, 0, 1)
     ELSE MkScore(Sign(dot), dot * dot, magA * magA)

\* cosineSimilarity of the rag module: over the first min(|a|, |b|)
\* components, 0 for an empty or zero-magnitude input.
cosineSimilarity(a, b) ==
  LET length == Min(Len(a), Len(b))
      dot == SumTo([i \in 1..length |-> a[i] * b[i]], length)
      magA == SumTo([i \in 1..length |-> a[i] * a[i]], length)
      magB == SumTo([i \in 1..length |-> b[i] * b[i]], length)
  IN IF length = 0 THEN MkScore(0, 0, 1)
     ELSE IF magA * magB = 0 THEN MkScore(0, 0, 1)
     ELSE MkScore(Sign(dot), dot * dot, magA * magB)

(***************************************************************************)
(* The embedding client.  The backend's answer to one call is an outcome:  *)
(* the connection fails, a non-2xx status, a 2xx body that is not JSON, a  *)
(* JSON body without the vector field, or a vector.                        *)
(***************************************************************************)
RagRevs == {"rag_ts", "rag_a", "rag_b"}
\* rag_ts: src/src/rag.ts; rag_a: part_003 lines 1-273; rag_b: part_003
\* lines 274-612.

FailKinds == {"netfail", "http_error", "unparsable", "missing"}

Failed(kind) == [kind |-> kind, vec |-> <<>>]
Answered(v) == [kind |-> "ok", vec |-> v]

\* "NUL" stands for a control character outside the ranges getEmbedding keeps.
IsControl(c) == c = "NUL"

\* text.replace(/[^\x09\x0A\x0D\x20-\x7E\u00A0-\uFFFF]/g, "").trim()
CleanText(t) == Trim(SelectSeq(t, LAMBDA c : ~IsControl(c)))

MAX_CHARS == 4000

MinChars(rev, allowShort) == IF rev = "rag_b" /\ allowShort THEN 1 ELSE 5

\* Whether getEmbedding reaches its fetch: the rag_ts revision sends any
\* text, the later ones only a cleaned text of the minimum length.
EmbeddingCalls(rev, t, allowShort) ==
  rev = "rag_ts" \/ Len(CleanText(t)) >= MinChars(rev, allowShort)

\* The text getEmbedding puts in the request body.
EmbeddingInput(rev, t) ==
  IF rev = "rag_ts" THEN t
  ELSE SubSeq(CleanText(t), 1, Min(Len(CleanText(t)), MAX_CHARS))

\* getEmbedding's result for a backend outcome: a vector, null (omitted) or
\* a thrown error.  rag_ts throws on every failure; rag_a and rag_b catch
\* everything and return null.
getEmbedding(rev, t, allowShort, out) ==
  IF ~EmbeddingCalls(rev, t, allowShort) THEN [tag |-> "null", vec |-> <<>>]
  ELSE IF out.kind = "ok" THEN [tag |-> "vec", vec |-> out.vec]
  ELSE IF rev = "rag_ts" THEN [tag |-> "throw", vec |-> <<>>]
  ELSE [tag |-> "null", vec |-> <<>>]

(***************************************************************************)
(* Retrieval under the score/length policy.                                *)
(***************************************************************************)
\* Array.prototype.sort is stable: with the comparator b.score - a.score
\* an element goes before the first element that scores strictly less.
RECURSIVE InsertRankedBeforeTies(_, _)
\* The insertion of a sort that is not stable: the element goes before
\* the first element that does not score more.
InsertRankedBeforeTies(sorted, e) ==
  IF sorted = <<>> THEN <<e>>
  ELSE IF Cmp(e.score, Head(sorted).score) >= 0 THEN <<e>> \o sorted
  ELSE <<Head(sorted)>> \o InsertRankedBeforeTies(Tail(sorted), e)

RECURSIVE InsertRanked(_, _)
InsertRanked(sorted, e) ==
  IF sorted = <<>> THEN <<e>>
  ELSE IF Cmp(e.score, Head(sorted).score) = 1 THEN <<e>> \o sorted
  ELSE <<Head(sorted)>> \o InsertRanked(Tail(sorted), e)

RECURSIVE SortByScore(_)
SortByScore(rs) ==
  IF rs = <<>> THEN <<>>
  ELSE InsertRanked(SortByScore(SubSeq(rs, 1, Len(rs) - 1)), rs[Len(rs)])

\* knowledgeBase.map(chunk => ({text, score})).sort((a, b) => b.score - a.score)
Ranked(kb, qEmbedding) ==
  SortByScore([i \in 1..Len(kb) |->
                 [text |-> kb[i].text,
                  score |-> cosineSimilarity(qEmbedding, kb[i].embedding)]])

\* Array.prototype.slice(0, n), a negative n counting from the end.
Slice0(s, n) ==
  LET stop == IF n < 0 THEN (IF Len(s) + n < 0 THEN 0 ELSE Len(s) + n)
              ELSE Min(n, Len(s))
  IN SubSeq(s, 1, stop)

\* ranked.filter(r => r.score >= minScore &&
\*                    r.text.split(" ").length >= minWords).slice(0, topN)
Relevant(ranked, topN, minWords, minScore) ==
  Slice0(SelectSeq(ranked,
                   LAMBDA r : Geq(r.score, minScore)
                              /\ SplitLength(r.text) >= minWords),
         topN)

NullContext == [isNull |-> TRUE, text |-> <<>>]

\* The string | null that retrieveContext returns for its selection.
ContextOf(relevant) ==
  IF relevant = <<>> THEN NullContext
  ELSE [isNull |-> FALSE,
        text |-> JoinBlank([i \in 1..Len(relevant) |-> relevant[i].text])]

\* !context?.trim()
Blank(ctx) == ctx.isNull \/ Trim(ctx.text) = <<>>

\* retrieveContext after its test of the store's length: the embedding of
\* the question, the ranking of the store kb as it is when the embedding
\* comes back, and the selection.  What it returns or that it raised, the
\* ranking it built and the passages it selected.
RankAndSelect(rev, kb, question, topN, minWords, minScore, out) ==
  LET q == getEmbedding(rev, question, TRUE, out)
      ranked == Ranked(kb, q.vec)
      relevant == Relevant(ranked, topN, minWords, minScore)
      nothing == [status |-> "returned", context |-> NullContext,
                  embedded |-> FALSE, ranked |-> <<>>, relevant |-> <<>>]
  IN IF q.tag = "throw" THEN [nothing EXCEPT !.status = "raised"]
     ELSE IF q.tag = "null" THEN nothing
     ELSE [status |-> "returned", context |-> ContextOf(relevant),
           embedded |-> TRUE, ranked |-> ranked, relevant |-> relevant]

\* retrieveContext(question, topN, minWords, minScore) over the store kb,
\* given the backend's answer to its embedding call.
retrieveContext(rev, kb, question, topN, minWords, minScore, out) ==
  IF kb = <<>>
  THEN [status |-> "returned", context |-> NullContext,
        embedded |-> FALSE, ranked |-> <<>>, relevant |-> <<>>]
  ELSE RankAndSelect(rev, kb, question, topN, minWords, minScore, out)

(***************************************************************************)
(* The groundedness validator (validateResponseHybrid and its helpers).    *)
(* Three symbols stand for phrases: "#W" for the opening of the refusal,   *)
(* "(warning sign) No hay informacion relevante", "#w" for the same        *)
(* phrase in lower case, and "#k" for its ending, " en la base de          *)
(* conocimiento.".  Accented letters are outside the modelled alphabet.    *)
(***************************************************************************)
REFUSAL == <<"#W", "#k">>

UpperSeq == <<"A", "B", "C", "D", "E", "F", "G", "H", "I", "J", "K", "L", "M",
              "N", "O", "P", "Q", "R", "S", "T", "U", "V", "W", "X", "Y", "Z">>
LowerSeq == <<"a", "b", "c", "d", "e", "f", "g", "h", "i", "j", "k", "l", "m",
              "n", "o", "p", "q", "r", "s", "t", "u", "v", "w", "x", "y", "z">>
Digits == {"0", "1", "2", "3", "4", "5", "6", "7", "8", "9"}

IsLetter(c) == \E i \in 1..Len(LowerSeq) : c = LowerSeq[i] \/ c = UpperSeq[i]

\* String.prototype.toLowerCase, one character at a time.
LowerChar(c) ==
  IF \E i \in 1..Len(UpperSeq) : UpperSeq[i] = c
  THEN LowerSeq[CHOOSE i \in 1..Len(UpperSeq) : UpperSeq[i] = c]
  ELSE IF c = "#W" THEN "#w" ELSE c

ToLower(t) == [i \in 1..Len(t) |-> LowerChar(t[i])]

\* String.prototype.includes
Includes(t, pat) ==
  \E i \in 0..(Len(t) - Len(pat)) : SubSeq(t, i + 1, i + Len(pat)) = pat

\* cleanResp.toLowerCase().includes("(warning sign) no hay informacion relevante")
HasRefusalMarkerCaseSensitive(cleanResp) == Includes(cleanResp, <<"#w">>)

HasRefusalMarker(cleanResp) == Includes(ToLower(cleanResp), <<"#w">>)

SIM_ACCEPT == Ratio(7, 10)
SIM_BLOCK == Ratio(6, 10)
JACCARD_ACCEPT == Ratio(20, 100)
JACCARD_BLOCK == Ratio(12, 100)
MAX_CONTEXT_CHUNKS == 6

\* The validator's own cosineSimilarity: the dot product runs over vecA
\* with vecB[i] || 0, each norm over its whole vector, and a zero
\* denominator is replaced by 1e-9 (the dot product is then 0).
valCosine(vecA, vecB) ==
  LET dot == SumTo([i \in 1..Len(vecA) |->
                      vecA[i] * (IF i <= Len(vecB) THEN vecB[i] ELSE 0)],
                   Len(vecA))
      nA == SumTo([i \in 1..Len(vecA) |-> vecA[i] * vecA[i]], Len(vecA))
      nB == SumTo([i \in 1..Len(vecB) |-> vecB[i] * vecB[i]], Len(vecB))
  IN IF nA * nB = 0 THEN MkScore(0, 0, 1)
     ELSE MkScore(Sign(dot), dot * dot, nA * nB)

\* The validator's own getEmbedding: the vector, or [] on any failure.
valEmbedding(out) == IF out.kind = "ok" THEN out.vec ELSE <<>>

\* data.data[0].embedding is returned unchecked: the backend may answer
\* with a value that has a length and is not an array (a string).
Malformed == [kind |-> "malformed", vec |-> <<>>]

\* emb.length is truthy.
HasLength(out) == out.kind = "malformed" \/ valEmbedding(out) # <<>>

\* context.split(/\n{2,}/g): the pieces between runs of two or more
\* newlines.
RECURSIVE SplitBlankLines(_)
SplitBlankLines(t) ==
  LET starts == {i \in 1..(Len(t) - 1) : t[i] = "\n" /\ t[i + 1] = "\n"}
  IN IF starts = {} THEN <<t>>
     ELSE LET a == CHOOSE i \in starts : \A j \in starts : i <= j
              b == CHOOSE i \in a..Len(t) :
                     /\ \A j \in a..i : t[j] = "\n"
                     /\ (i = Len(t) \/ t[i + 1] # "\n")
          IN <<SubSeq(t, 1, a - 1)>> \o SplitBlankLines(SubSeq(t, b + 1, Len(t)))

splitContextChunks(context) ==
  LET trimmed == [i \in 1..Len(SplitBlankLines(context)) |->
                    Trim(SplitBlankLines(context)[i])]
  IN Slice0(SelectSeq(trimmed, LAMBDA p : Len(p) > 0), MAX_CONTEXT_CHUNKS)

\* replace(/\s+/g, " "): every run of blanks becomes one space.
RECURSIVE CollapseBlanks(_)
CollapseBlanks(t) ==
  IF t = <<>> THEN <<>>
  ELSE IF IsSpace(Head(t))
       THEN <<" ">> \o CollapseBlanks(TrimLeft(t))
       ELSE <<Head(t)>> \o CollapseBlanks(Tail(t))

normalizeText(t) ==
  LET low == ToLower(t)
      kept == [i \in 1..Len(low) |->
                 IF IsLetter(low[i]) \/ low[i] \in Digits \/ IsSpace(low[i])
                 THEN low[i] ELSE " "]
  IN Trim(CollapseBlanks(kept))

StopWords ==
  { <<"l", "a">>, <<"e", "l">>, <<"l", "o", "s">>, <<"l", "a", "s">>,
    <<"d", "e">>, <<"d", "e", "l">>, <<"y">>, <<"o">>, <<"u">>, <<"a">>,
    <<"e", "n">>, <<"c", "o", "n">>, <<"p", "a", "r", "a">>, <<"p", "o", "r">>,
    <<"u", "n">>, <<"u", "n", "a">>, <<"q", "u", "e">>, <<"s", "e">>,
    <<"e", "s">>, <<"a", "l">>, <<"l", "o">> }

tokenSet(t) ==
  LET ws == SplitOn(normalizeText(t), " ")
  IN {ws[i] : i \in {j \in 1..Len(ws) :
                       ws[j] # <<>> /\ ws[j] \notin StopWords /\ Len(ws[j]) > 2}}

jaccard(a, b) ==
  LET inter == Cardinality(a \cap b)
      union == IF Cardinality(a) + Cardinality(b) - inter = 0 THEN 1
               ELSE Cardinality(a) + Cardinality(b) - inter
  IN Ratio(inter, union)

\* The strings validateResponseHybrid returns: a text as it is, or a text
\* behind the low-confidence notice, which carries the similarity in the
\* embedding method and nothing in the lexical one.
\* maxSim.toFixed(3) as a number of thousandths: the score rounded to the
\* nearest thousandth.
toFixed3(m) ==
  LET k == CHOOSE j \in 0..1000 :
             /\ (j = 0 \/ (2 * j - 1) * (2 * j - 1) * m.d <= 4000000 * m.n)
             /\ (j = 1000 \/ 4000000 * m.n < (2 * j + 1) * (2 * j + 1) * m.d)
  IN m.s * k

Plain(t) == [mark |-> "none", sim |-> 0, body |-> t]
LowConfidence(m, t) == [mark |-> "sim", sim |-> toFixed3(m), body |-> t]
LowConfidenceLexical(t) == [mark |-> "lex", sim |-> 0, body |-> t]

\* The forEach over chunkEmbs: maxSim starts at -1, an empty embedding is
\* skipped, a strictly greater similarity replaces the maximum.
RECURSIVE MaxSimOver(_, _, _)
MaxSimOver(respEmb, chunkEmbs, maxSim) ==
  IF chunkEmbs = <<>> THEN maxSim
  ELSE LET emb == Head(chunkEmbs)
           sim == valCosine(respEmb, emb)
       IN MaxSimOver(respEmb, Tail(chunkEmbs),
                     IF emb # <<>> /\ Cmp(sim, maxSim) = 1 THEN sim ELSE maxSim)

\* Math.max(...scores, 0)
RECURSIVE MaxScore(_, _)
MaxScore(scores, best) ==
  IF scores = <<>> THEN best
  ELSE MaxScore(Tail(scores),
                IF Cmp(Head(scores), best) = 1 THEN Head(scores) ELSE best)

EmbeddingVerdictLooseBlock(respuesta, maxSim) ==
  IF Geq(maxSim, SIM_ACCEPT) THEN Plain(respuesta)
  ELSE IF ~Geq(maxSim, SIM_BLOCK) \/ maxSim = SIM_BLOCK THEN Plain(REFUSAL)
  ELSE LowConfidence(maxSim, respuesta)

\* The rules of the embedding method.
EmbeddingVerdict(respuesta, maxSim) ==
  IF Geq(maxSim, SIM_ACCEPT) THEN Plain(respuesta)
  ELSE IF Lt(maxSim, SIM_BLOCK) THEN Plain(REFUSAL)
  ELSE LowConfidence(maxSim, respuesta)

\* The rules of the lexical fallback.
LexicalVerdict(respuesta, best) ==
  IF Geq(best, JACCARD_ACCEPT) THEN Plain(respuesta)
  ELSE IF Lt(best, JACCARD_BLOCK) THEN Plain(REFUSAL)
  ELSE LowConfidenceLexical(respuesta)

\* Whether the validator goes on to the passage embeddings after the
\* answer's embedding came back: if (respEmb.length).
AnswerEmbedded(respOut) == HasLength(respOut)

\* cosineSimilarity calls reduce on both arguments: it throws a TypeError,
\* caught at the validator's catch, when it is reached with a value that
\* is not an array.
SimilarityThrows(respOut, chunkOuts) ==
  \E i \in 1..Len(chunkOuts) :
    /\ HasLength(chunkOuts[i])
    /\ (respOut.kind = "malformed" \/ chunkOuts[i].kind = "malformed")

\* validateResponseHybrid(respuesta, context), given the backend's answers
\* to the embedding of the response and of each context chunk: the string
\* returned, the method that decided, the similarity it decided on and the
\* number of embedding calls made.
validateResponseHybrid(respuesta, context, respOut, chunkOuts) ==
  LET cleanResp == Trim(respuesta)
      cleanCtx == Trim(context)
      chunks == splitContextChunks(cleanCtx)
      respEmb == valEmbedding(respOut)
      chunkEmbs == [i \in 1..Len(chunks) |-> valEmbedding(chunkOuts[i])]
      maxSim == MaxSimOver(respEmb, chunkEmbs, Ratio(-1, 1))
      respSet == tokenSet(cleanResp)
      scores == [i \in 1..Len(chunks) |-> jaccard(respSet, tokenSet(chunks[i]))]
      best == MaxScore(scores, Ratio(0, 1))
  IN IF HasRefusalMarker(cleanResp)
     THEN [text |-> Plain(respuesta), method |-> "passthrough",
           score |-> Ratio(0, 1), calls |-> 0]
     ELSE IF cleanCtx = <<>>
     THEN [text |-> Plain(REFUSAL), method |-> "blank",
           score |-> Ratio(0, 1), calls |-> 0]
     ELSE IF AnswerEmbedded(respOut) /\ ~SimilarityThrows(respOut, chunkOuts)
     THEN [text |-> EmbeddingVerdict(respuesta, maxSim), method |-> "embedding",
           score |-> maxSim, calls |-> 1 + Len(chunks)]
     ELSE [text |-> LexicalVerdict(respuesta, best), method |-> "lexical",
           score |-> best,
           calls |-> IF AnswerEmbedded(respOut) THEN 1 + Len(chunks) ELSE 1]

(***************************************************************************)
(* State.                                                                  *)
(***************************************************************************)
VARIABLES
  ragRev,         \* the revision of the rag module that is running
  knowledgeBase,  \* export let knowledgeBase: Chunk[]
  rc,             \* one call of retrieveContext: its arguments and result
  vc,             \* one call of validateResponseHybrid, likewise
  fc,             \* one call of a function of the rag module, likewise
  rev,            \* the revision of the server that is running
  cache,          \* the store's cache file: whether it exists, its content
  load,           \* loadKnowledge: where it is, the chunk it is embedding
  sessions,       \* const sessions: Record<string, Session>, id to object
  objs,           \* the Session objects
  req,            \* the /chat requests: where each handler is, its locals
  now,            \* Date.now()
  unanswered,     \* new_questions.json
  appends,        \* history: per id, what requests carrying it appended
  expired         \* history: the ids whose session a sweep has deleted

ragVars == <<ragRev, knowledgeBase>>
serverVars ==
  <<rev, cache, load, sessions, objs, req, now, unanswered, appends, expired>>
vars == <<ragRev, knowledgeBase, rc, vc, fc, serverVars>>

SessionIds == {"A", "B"}
ReqIds == {"r1", "r2"}

\* As many Session objects as can be referenced at once: one per id in
\* sessions and one per handler holding a deleted one.
ObjIds == 1..(Cardinality(SessionIds) + Cardinality(ReqIds))

NoObj == [messages |-> <<>>, lastActive |-> -1]
NoCache == [exists |-> FALSE, chunks |-> <<>>]

\* new_questions.json is absent ("absent"), a JSON text that holds data
\* ("json"), or a text that JSON.parse rejects, such as a write cut short,
\* in which the records of data can still be read ("damaged").
NoRecords == [s \in SessionIds |-> <<>>]
NoLog == [state |-> "absent", data |-> NoRecords]
NoResponse == [status |-> 0, text |-> Plain(<<>>), contextFound |-> FALSE]

\* A request that has not arrived: the handler's locals and, as history,
\* whether a step of it ran while loadKnowledge was running, the size of
\* the store its retrieval observed (-1: none) and what the generation
\* backend did on its call ("none": no call came back).
NewReq ==
  [pc |-> "new", sid |-> "", msg |-> <<>>, obj |-> 0, retrieved |-> FALSE,
   ctx |-> NullContext, called |-> FALSE, resp |-> NoResponse,
   duringLoad |-> FALSE, seen |-> -1, reply |-> "none"]

\* The server at rest, for the specifications of single functions.
ServerIdle ==
  /\ rev = "echo"
  /\ cache = NoCache
  /\ load = [pc |-> "done", i |-> 0, outs |-> <<>>]
  /\ sessions = [s \in SessionIds |-> 0]
  /\ objs = [o \in ObjIds |-> NoObj]
  /\ req = [r \in ReqIds |-> NewReq]
  /\ now = 0
  /\ unanswered = NoLog
  /\ appends = [s \in SessionIds |-> <<>>]
  /\ expired = {}

(***************************************************************************)
(* Inputs enumerated by the model.                                         *)
(***************************************************************************)
\* Passage texts: "a b", "a  b" (two blanks), "a b c".
PassageTexts ==
  { <<"a", " ", "b">>, <<"a", " ", " ", "b">>, <<"a", " ", "b", " ", "c">> }

\* Embeddings: against the query <<1, 0>> their cosines are 1, 0.707..,
\* 0.650.. and 0.6.
ChunkVecs == { <<1, 0>>, <<1, 1>>, <<6, 7>>, <<3, 4>> }
QueryVecs == { <<1, 0>>, <<1, 1>> }

\* A chunk without the optional field id; id is <<i>> when the chunk has
\* the id i.
Chunk(t, e) == [text |-> t, embedding |-> e, id |-> <<>>]

Chunks == {Chunk(t, e) : t \in PassageTexts, e \in ChunkVecs}

Stores == UNION {[1..k -> Chunks] : k \in 0..MaxChunks}

\* "horas", and "hi", which is below the five characters rag_a asks for.
Questions == { <<"h", "o", "r", "a", "s">>, <<"h", "i">> }

Outcomes == {Failed(k) : k \in FailKinds} \cup {Answered(v) : v \in QueryVecs}

\* 0.65 (the default), 0 and 0.7.
MinScores == {Ratio(13, 20), Ratio(0, 1), Ratio(7, 10)}

(***************************************************************************)
(* SpecRetrieve: retrieveContext as a function of the store, its           *)
(* arguments and the backend's answer.                                     *)
(***************************************************************************)
NoCall == [pc |-> "idle"]

RetrieveInit ==
  /\ ragRev \in RagRevs
  /\ knowledgeBase \in Stores
  /\ rc = NoCall
  /\ vc = NoCall
  /\ fc = NoCall
  /\ ServerIdle

RetrieveCall ==
  /\ rc.pc = "idle"
  /\ \E question \in Questions, topN \in (-1)..MaxTopN,
        minWords \in 0..MaxMinWords, minScore \in MinScores, out \in Outcomes :
       rc' = [pc |-> "done", question |-> question, topN |-> topN,
              minWords |-> minWords, minScore |-> minScore, out |-> out,
              ret |-> retrieveContext(ragRev, knowledgeBase, question, topN,
                                      minWords, minScore, out)]
  /\ UNCHANGED <<ragVars, vc, fc, serverVars>>

RetrieveNext == RetrieveCall

SpecRetrieve == RetrieveInit /\ [][RetrieveNext]_vars

\* C1: for topN >= 0 the passages retrieveContext selects number at most
\* topN, and each has cosine score >= minScore and at least minWords words.
C1_SelectionBounded ==
  (rc.pc = "done" /\ rc.topN >= 0) =>
    /\ Len(rc.ret.relevant) <= rc.topN
    /\ \A i \in 1..Len(rc.ret.relevant) :
         /\ Geq(rc.ret.relevant[i].score, rc.minScore)
         /\ WordCount(rc.ret.relevant[i].text) >= rc.minWords

\* The query had no embedding: the text was too short to send, or the
\* backend failed or answered without a vector.
QueryOmitted ==
  ~(EmbeddingCalls(ragRev, rc.question, TRUE) /\ rc.out.kind = "ok")

\* C3: when the embedding of the query is omitted, retrieveContext returns
\* the empty result and does not raise, and it ranks and selects nothing.
C3_OmittedFailsClosed ==
  (rc.pc = "done" /\ QueryOmitted) =>
    /\ rc.ret.status = "returned"
    /\ rc.ret.context = NullContext
    /\ rc.ret.ranked = <<>>
    /\ rc.ret.relevant = <<>>

(***************************************************************************)
(* SpecValidate: validateResponseHybrid as a function of the answer, the   *)
(* context and the backend's answers to the embedding calls it makes.      *)
(***************************************************************************)
\* "uno dos mil"
AnswerText == <<"u", "n", "o", " ", "d", "o", "s", " ", "m", "i", "l">>

\* The refusal, the marker in lower case, the marker followed by more text,
\* the refusal after a blank, and an answer of three words.
Answers ==
  { REFUSAL, <<"#w">>, <<"#W", " ", "u", "n", "o">>, <<" ">> \o REFUSAL,
    AnswerText }

\* "uno dos mil", "uno sol mar", "uno de que sol mar pan", "sol mar": their
\* Jaccard scores against the answer are 1, 1/5, 1/6 and 0.
ValPassages ==
  { AnswerText,
    <<"u", "n", "o", " ", "s", "o", "l", " ", "m", "a", "r">>,
    <<"u", "n", "o", " ", "d", "e", " ", "q", "u", "e", " ", "s", "o", "l",
      " ", "m", "a", "r", " ", "p", "a", "n">>,
    <<"s", "o", "l", " ", "m", "a", "r">> }

Contexts ==
  { <<>>, <<" ", "\n">> }
  \cup {JoinBlank(ps) : ps \in UNION {[1..k -> ValPassages] : k \in 1..MaxCtxChunks}}

\* Against <<1, 0>> the cosines are 0.707.., 0.650.., 0.6 and 0.
ValOutcomes ==
  {Failed("netfail"), Malformed}
  \cup {Answered(v) : v \in {<<1, 1>>, <<6, 7>>, <<3, 4>>, <<0, 1>>}}

\* The backend's answers to the embedding of the response.
AnswerOutcomes ==
  {Failed("netfail"), Malformed, Answered(<<1, 0>>), Answered(<<1, 1>>)}

ValidateInit ==
  /\ ragRev = "rag_b"
  /\ knowledgeBase = <<>>
  /\ rc = NoCall
  /\ vc = NoCall
  /\ fc = NoCall
  /\ ServerIdle

ValidateCall ==
  /\ vc.pc = "idle"
  /\ \E respuesta \in Answers, context \in Contexts, respOut \in AnswerOutcomes :
       LET embeds == /\ ~HasRefusalMarker(Trim(respuesta))
                     /\ Trim(context) # <<>>
                     /\ AnswerEmbedded(respOut)
           n == IF embeds THEN Len(splitContextChunks(Trim(context))) ELSE 0
       IN \E chunkOuts \in [1..n -> ValOutcomes] :
            vc' = [pc |-> "done", respuesta |-> respuesta, context |-> context,
                   respOut |-> respOut, chunkOuts |-> chunkOuts,
                   ret |-> validateResponseHybrid(respuesta, context,
                                                  respOut, chunkOuts)]
  /\ UNCHANGED <<ragVars, rc, fc, serverVars>>

ValidateNext == ValidateCall

SpecValidate == ValidateInit /\ [][ValidateNext]_vars

\* C5: with an empty or whitespace-only context the validator rejects every
\* answer: it returns the canonical refusal string.
C5_BlankContextRejects ==
  (vc.pc = "done" /\ Trim(vc.context) = <<>>) => vc.ret.text = Plain(REFUSAL)

\* C6: on the canonical refusal the validator returns exactly the refusal,
\* whatever the context, without a prefix and without a backend call.
C6_RefusalIdempotent ==
  (vc.pc = "done" /\ vc.respuesta = REFUSAL) =>
    /\ vc.ret.text = Plain(REFUSAL)
    /\ vc.ret.calls = 0

C6_Witness ==
  /\ vc.pc = "done"
  /\ vc.respuesta = REFUSAL
  /\ Trim(vc.context) # <<>>
  /\ vc.ret.text = Plain(REFUSAL)

\* The greatest element of a non-empty set of scores.
GreatestOf(S) == CHOOSE x \in S : \A y \in S : Geq(x, y)

\* The maximum cosine similarity between the answer and the passages whose
\* embedding came back, -1 when none did.
MaxCosine ==
  LET respEmb == valEmbedding(vc.respOut)
      sims == {valCosine(respEmb, valEmbedding(vc.chunkOuts[i])) :
                 i \in {j \in 1..Len(vc.chunkOuts) :
                          valEmbedding(vc.chunkOuts[j]) # <<>>}}
  IN IF sims = {} THEN Ratio(-1, 1) ELSE GreatestOf(sims)

\* C7: in the embedding method, with m the maximum cosine similarity,
\* m >= 0.70 returns the answer unchanged, m < 0.60 returns the refusal,
\* and any other m returns the answer behind the low-confidence notice
\* carrying m; exactly one of the three applies.
C7_EmbeddingThresholds ==
  (vc.pc = "done" /\ vc.ret.method = "embedding") =>
    LET m == MaxCosine
        accept == vc.ret.text = Plain(vc.respuesta)
        reject == vc.ret.text = Plain(REFUSAL)
        low == /\ vc.ret.text.mark = "sim"
               /\ vc.ret.text = LowConfidence(m, vc.respuesta)
    IN /\ vc.ret.score = m
       /\ Geq(m, Ratio(70, 100)) => accept
       /\ Lt(m, Ratio(60, 100)) => reject
       /\ (Lt(m, Ratio(70, 100)) /\ Geq(m, Ratio(60, 100))) => low
       /\ Cardinality({v \in {"accept", "reject", "low"} :
                         \/ v = "accept" /\ accept
                         \/ v = "reject" /\ reject
                         \/ v = "low" /\ low}) = 1

C7_Witness ==
  /\ vc.pc = "done"
  /\ vc.ret.method = "embedding"
  /\ vc.ret.text = LowConfidence(Ratio(6, 10), vc.respuesta)

\* An embedding the validator asked for failed: no vector came back.
EmbeddingFailed(out) == out.kind # "ok" \/ out.vec = <<>>
AnswerEmbeddingFailed == EmbeddingFailed(vc.respOut)
PassageEmbeddingFailed ==
  \E i \in 1..Len(vc.chunkOuts) : EmbeddingFailed(vc.chunkOuts[i])

\* The maximum Jaccard score between the answer and the context passages.
MaxJaccard ==
  LET chunks == splitContextChunks(Trim(vc.context))
      scores == {jaccard(tokenSet(Trim(vc.respuesta)), tokenSet(chunks[i])) :
                   i \in 1..Len(chunks)}
  IN GreatestOf(scores \cup {Ratio(0, 1)})

\* C8: the lexical fallback decides whenever the embedding of the answer
\* or of any context passage fails, and only then.
C8_FallbackIffAnyFails ==
  (vc.pc = "done" /\ vc.ret.method \in {"embedding", "lexical"}) =>
    (vc.ret.method = "lexical"
       <=> (AnswerEmbeddingFailed \/ PassageEmbeddingFailed))

\* The embedding of the answer came back empty, or a similarity was
\* computed on a value that is not a vector.
FallbackTaken ==
  \/ vc.respOut.kind \notin {"ok", "malformed"}
  \/ vc.respOut.kind = "ok" /\ vc.respOut.vec = <<>>
  \/ \E i \in 1..Len(vc.chunkOuts) :
       /\ vc.chunkOuts[i].kind = "malformed" \/ vc.chunkOuts[i].vec # <<>>
       /\ "malformed" \in {vc.respOut.kind, vc.chunkOuts[i].kind}

\* What the validator does: the lexical fallback decides exactly when the
\* embedding of the answer comes back empty or a similarity computation
\* throws on a value that is not a vector; a passage whose embedding comes
\* back empty is skipped by the embedding method.  In the fallback the
\* verdict is set by the Jaccard thresholds (accept from 0.20, reject below
\* 0.12) over the maximum Jaccard score.
FallbackOnAnswerFailure ==
  (vc.pc = "done" /\ vc.ret.method \in {"embedding", "lexical"}) =>
    /\ vc.ret.method = "lexical" <=> FallbackTaken
    /\ vc.ret.method = "lexical" =>
         LET b == MaxJaccard
         IN /\ vc.ret.score = b
            /\ Geq(b, Ratio(20, 100)) => vc.ret.text = Plain(vc.respuesta)
            /\ Lt(b, Ratio(12, 100)) => vc.ret.text = Plain(REFUSAL)
            /\ (Lt(b, Ratio(20, 100)) /\ Geq(b, Ratio(12, 100))) =>
                 vc.ret.text = LowConfidenceLexical(vc.respuesta)

\* Every passage embedding failed, the answer's did not, and the embedding
\* method rejected the answer on a similarity of -1.
AllPassagesFailed ==
  /\ vc.pc = "done"
  /\ vc.ret.method = "embedding"
  /\ \A i \in 1..Len(vc.chunkOuts) : EmbeddingFailed(vc.chunkOuts[i])
  /\ vc.ret.score = Ratio(-1, 1)
  /\ vc.ret.text = Plain(REFUSAL)

(***************************************************************************)
(* The chat server: loadKnowledge started from the listen callback, the    *)
(* /chat handlers of three revisions of the server, and the sweep of       *)
(* expired sessions.  A handler is one action from each completion of an   *)
(* awaited request to the start of the next.                               *)
(***************************************************************************)
MaxSweeps == 7

\* The server revisions and the rag module each one runs with: the echo
\* server (src/src/server.ts), the general-knowledge revision
\* (part_000:146-265) and the latest revision (part_001:473-714).
Pairings ==
  { <<"echo", "rag_ts">>, <<"general", "rag_ts">>, <<"latest", "rag_b">> }

SESSION_EXPIRATION == 30 * 60 * 1000
SWEEP_INTERVAL == 5 * 60 * 1000
STRICT_THRESHOLD == Ratio(7, 10)

\* topN = 2, minWords = 5, minScore = 0.65
DefaultArgs == [topN |-> 2, minWords |-> 5, minScore |-> Ratio(13, 20)]

\* The number of sweep intervals that go by between two steps: 35 minutes,
\* the first sweep at which a session untouched since is found expired.
TickSteps == {SESSION_EXPIRATION \div SWEEP_INTERVAL + 1}

\* "horas", "hola!", "hi", "12345" and the empty message.
QuestionText == <<"h", "o", "r", "a", "s">>
GreetingText == <<"h", "o", "l", "a", "!">>
DigitsText == <<"1", "2", "3", "4", "5">>
ChatMessages == {QuestionText, GreetingText, <<"h", "i">>, DigitsText, <<>>}

\* The passages of the document: "horas de sol a mar", "pan luz uno dos mil".
DocChunks ==
  << <<"h", "o", "r", "a", "s", " ", "d", "e", " ", "s", "o", "l", " ", "a",
       " ", "m", "a", "r">>,
     <<"p", "a", "n", " ", "l", "u", "z", " ", "u", "n", "o", " ", "d", "o",
       "s", " ", "m", "i", "l">> >>

\* The embedding backend is a function of the text when it answers: the
\* question and the first passage go to <<1, 0>>, the second passage to
\* <<6, 7>> (cosine 0.650.. against the question).
EmbedOf(t) ==
  IF t = QuestionText \/ t = DocChunks[1] THEN <<1, 0>>
  ELSE IF t = DocChunks[2] THEN <<6, 7>>
  ELSE <<0, 1>>

EmbedOutcomes(t) == {Failed("netfail"), Answered(EmbedOf(t))}

\* The chunk loadKnowledge pushes: rag_ts adds id: i.
StoredChunk(rrev, t, e, i) ==
  IF rrev = "rag_ts" THEN [text |-> t, embedding |-> e, id |-> <<i>>]
  ELSE Chunk(t, e)

FullStore(rrev) ==
  [i \in 1..Len(DocChunks) |->
     StoredChunk(rrev, DocChunks[i], EmbedOf(DocChunks[i]), i - 1)]

\* The strings the handlers answer with, each a symbol.
MISSING_FIELDS == <<"#falta">>
INVALID_MESSAGE == <<"#invalid">>
SALUDO == <<"#saludo">>
WARNING_MESSAGE == <<"#aprendiendo">>
LLM_UNEXPECTED == <<"#inesperada">>
LLM_UNREACHABLE == <<"#conectar">>

\* What the generation backend does: fails, answers in another shape, or
\* answers with a text, "luz azul", that no passage supports.
LLMReplies ==
  { [kind |-> "netfail", content |-> <<>>],
    [kind |-> "unexpected", content |-> <<>>],
    [kind |-> "ok", content |-> <<"l", "u", "z", " ", "a", "z", "u", "l">>] }

\* generateAIResponse: the text it returns and whether the text came from
\* the backend.
generateAIResponse(reply) ==
  IF reply.kind = "netfail"
  THEN [text |-> LLM_UNREACHABLE, origin |-> "canned"]
  ELSE IF reply.kind = "unexpected"
  THEN [text |-> LLM_UNEXPECTED, origin |-> "canned"]
  ELSE [text |-> reply.content, origin |-> "generated"]

\* isValidMessage without its test for a letter.
isValidMessageByLength(msg) == Len(Trim(msg)) >= 5

\* isValidMessage
isValidMessage(msg) ==
  /\ Len(Trim(msg)) >= 5
  /\ \E i \in 1..Len(Trim(msg)) : IsLetter(Trim(msg)[i])

GreetingKeywords ==
  { <<"h", "o", "l", "a">>, <<"h", "o", "l", "a", "a">>,
    <<"b", "u", "e", "n", "o", "s", " ", "d", "i", "a", "s">>,
    <<"b", "u", "e", "n", "a", "s", " ", "t", "a", "r", "d", "e", "s">>,
    <<"b", "u", "e", "n", "a", "s", " ", "n", "o", "c", "h", "e", "s">>,
    <<"b", "u", "e", "n", " ", "d", "i", "a">>,
    <<"q", "u", "e", " ", "t", "a", "l">>,
    <<"c", "o", "m", "o", " ", "e", "s", "t", "a", "s">>,
    <<"s", "a", "l", "u", "d", "o", "s">>, <<"h", "e", "y">> }

isGreeting(message) ==
  \E kw \in GreetingKeywords : Includes(Trim(ToLower(message)), kw)

\* A message of a session.  sid, origin and verdict are history: the id
\* the appending request carried, where the content came from, and the
\* validator's verdict on it ("none": it never went through a validator).
ChatMessage(role, content, sid, origin) ==
  [role |-> role, content |-> Plain(content), timestamp |-> now,
   sid |-> sid, origin |-> origin, verdict |-> "none"]

\* The echo server's messages have no timestamp.
EchoMessage(role, content, sid, origin) ==
  [role |-> role, content |-> Plain(content),
   sid |-> sid, origin |-> origin, verdict |-> "none"]

SessionKeyShared(sessionId) == "A"

\* The property of sessions that sessions[sessionId] names.
SessionKey(sessionId) == sessionId

\* The lowest object that is not in use.
FreeObj ==
  CHOOSE o \in ObjIds :
    /\ objs[o] = NoObj
    /\ \A p \in ObjIds : objs[p] = NoObj => o <= p

\* if (!sessions[sessionId]) sessions[sessionId] = {messages: [],
\* lastActive: Date.now()}; session.lastActive = Date.now()
Opened(sessionId) ==
  LET key == SessionKey(sessionId)
      o == IF sessions[key] # 0 THEN sessions[key] ELSE FreeObj
  IN [o |-> o,
      sessions |-> [sessions EXCEPT ![key] = o],
      objs |-> [objs EXCEPT ![o] =
                  [messages |-> IF sessions[key] # 0 THEN @.messages ELSE <<>>,
                   lastActive |-> now]]]

\* session.messages.push(m)
Push(os, o, m) == [os EXCEPT ![o].messages = Append(@, m)]

\* The objects that sessions or a handler still reference; the others are
\* garbage.
Collected(ss, os, rq) ==
  [o \in ObjIds |->
     IF (\E sid \in SessionIds : ss[sid] = o) \/ (\E r \in ReqIds : rq[r].obj = o)
     THEN os[o] ELSE NoObj]

\* The handler responds: res.json or res.status(400).json
Responded(rq, status, text, contextFound) ==
  [rq EXCEPT !.pc = "done", !.obj = 0,
             !.resp = [status |-> status, text |-> Plain(text),
                       contextFound |-> contextFound]]

LoadRunning == load.pc # "done"

(***************************************************************************)
(* loadKnowledge                                                           *)
(***************************************************************************)
\* A component that the backend wrote with an exponent beyond the doubles
\* (1e999), which JSON.parse reads as Infinity, and the null that
\* JSON.stringify writes for a number that is not finite.
INFINITY == 98
JSNULL == 97

\* JSON.stringify(knowledgeBase, null, 2), the file taken as the JSON value
\* it holds: strings and finite numbers are written as they are, a number
\* that is not finite as null.
JSONstringify(kb) ==
  [i \in 1..Len(kb) |->
     [kb[i] EXCEPT !.embedding =
        [j \in 1..Len(@) |-> IF @[j] = INFINITY THEN JSNULL ELSE @[j]]]]

\* JSON.parse(fs.readFileSync(cachePath, "utf-8")): the value written.
JSONparse(file) == file

\* The cache branch with the parsed chunks pushed onto the store.
FromCacheAppended(kb, parsed) == kb \o parsed

\* knowledgeBase = JSON.parse(...)
FromCache(kb, parsed) == parsed

\* loadKnowledge going on to the document whether a cache file exists or
\* not.
LoadKnowledgeRebuilding ==
  /\ load.pc = "start"
  /\ load' = [pc |-> "reading", i |-> 0, outs |-> <<>>]
  /\ UNCHANGED <<ragRev, knowledgeBase, rc, vc, fc, rev, cache, sessions, objs,
                 req, now, unanswered, appends, expired>>

\* app.listen's callback calls loadKnowledge: with a cache file the store
\* is read from it at once, otherwise the document is read first.
LoadKnowledge ==
  /\ load.pc = "start"
  /\ IF cache.exists
     THEN /\ knowledgeBase' = FromCache(knowledgeBase, JSONparse(cache.chunks))
          /\ load' = [pc |-> "done", i |-> 0, outs |-> <<>>]
     ELSE /\ load' = [pc |-> "reading", i |-> 0, outs |-> <<>>]
          /\ UNCHANGED knowledgeBase
  /\ UNCHANGED <<ragRev, rc, vc, fc, rev, cache, sessions, objs, req, now,
                 unanswered, appends, expired>>

\* After the last chunk: fs.writeFileSync(cachePath, ...)
LoadFinished(kb, outs) ==
  /\ load' = [pc |-> "done", i |-> 0, outs |-> outs]
  /\ cache' = [exists |-> TRUE, chunks |-> JSONstringify(kb)]

\* loadWordFile resolves: the text is cut into chunks, the store is emptied
\* and the first chunk goes to the embedding backend.
LoadRead ==
  /\ load.pc = "reading"
  /\ knowledgeBase' = <<>>
  /\ load' = [pc |-> "embedding", i |-> 1, outs |-> <<>>]
  /\ UNCHANGED <<ragRev, rc, vc, fc, rev, cache, sessions, objs, req, now,
                 unanswered, appends, expired>>

\* The step of the loop after chunk i: the next chunk, or the end.
LoadAdvance(kb, outs) ==
  IF load.i < Len(DocChunks)
  THEN /\ load' = [pc |-> "embedding", i |-> load.i + 1, outs |-> outs]
       /\ UNCHANGED cache
  ELSE LoadFinished(kb, outs)

\* The loop body with the chunk pushed whatever getEmbedding gave.
IngestedAlways(rrev, kb, chunk, e, i) ==
  Append(kb, StoredChunk(rrev, chunk, e.vec, i))

\* The loop body on what getEmbedding gave for the chunk at index i: the
\* chunk is pushed with its embedding, or left out when getEmbedding
\* returned null (rag_ts: threw, which the loop catches).
Ingested(rrev, kb, chunk, e, i) ==
  IF e.tag = "vec" THEN Append(kb, StoredChunk(rrev, chunk, e.vec, i))
  ELSE kb

\* getEmbedding(chunk) comes back with one of the backend's answers,
\* outcomes.  rag_ts then waits 200 ms.  load.outs keeps, as
\* history, what getEmbedding gave for each chunk of this call.
Embedded(outcomes) ==
  /\ load.pc = "embedding"
  /\ \E out \in outcomes :
       LET chunk == DocChunks[load.i]
           e == getEmbedding(ragRev, chunk, FALSE, out)
           kb == Ingested(ragRev, knowledgeBase, chunk, e, load.i - 1)
           outs == Append(load.outs, e)
       IN /\ knowledgeBase' = kb
          /\ IF ragRev = "rag_ts"
             THEN /\ load' = [load EXCEPT !.pc = "pause", !.outs = outs]
                  /\ UNCHANGED cache
             ELSE LoadAdvance(kb, outs)
  /\ UNCHANGED <<ragRev, rc, vc, fc, rev, sessions, objs, req, now,
                 unanswered, appends, expired>>

LoadEmbedded ==
  Embedded(EmbedOutcomes(EmbeddingInput(ragRev, DocChunks[load.i])))

\* rag_ts: the 200 ms timer fires.
LoadPaused ==
  /\ load.pc = "pause"
  /\ LoadAdvance(knowledgeBase, load.outs)
  /\ UNCHANGED <<ragRev, knowledgeBase, rc, vc, fc, rev, sessions, objs, req,
                 now, unanswered, appends, expired>>

(***************************************************************************)
(* The sweep: setInterval(..., 5 * 60 * 1000)                              *)
(***************************************************************************)
\* The test of the sweep shifted to the window's edge.
ExpiredAtWindow(o, t) == t - objs[o].lastActive >= SESSION_EXPIRATION

Expired(o, t) == t - objs[o].lastActive > SESSION_EXPIRATION

\* k intervals, k in steps, go by with no other step; the sweeps delete the
\* sessions that have been idle for longer than SESSION_EXPIRATION.
Elapse(steps) ==
  /\ \E k \in steps :
       /\ now + k * SWEEP_INTERVAL <= MaxSweeps * SWEEP_INTERVAL
       /\ now' = now + k * SWEEP_INTERVAL
  /\ LET gone == {sid \in SessionIds :
                    sessions[sid] # 0 /\ Expired(sessions[sid], now')}
     IN /\ sessions' = [sid \in SessionIds |->
                          IF sid \in gone THEN 0 ELSE sessions[sid]]
        /\ expired' = expired \cup gone
        /\ objs' = Collected(sessions', objs, req)
  /\ UNCHANGED <<ragVars, rc, vc, fc, rev, cache, load, req, unanswered, appends>>

Tick == Elapse(TickSteps)

(***************************************************************************)
(* saveUnansweredMessage                                                   *)
(***************************************************************************)
UnansweredEntry(userMessage, contextFragments, topScore, t) ==
  [message |-> userMessage, timestamp |-> t, context |-> contextFragments,
   topScore |-> topScore]

\* data after the file was looked for, read and parsed: {} when it is
\* absent and when JSON.parse throws.
LogRead(file) == IF file.state = "json" THEN file.data ELSE NoRecords

\* saveUnansweredMessage putting the entry in place of the session's list.
saveUnansweredMessageAlone(file, sessionId, userMessage, contextFragments, topScore, t) ==
  [state |-> "json",
   data |-> [LogRead(file) EXCEPT ![sessionId] =
               <<UnansweredEntry(userMessage, contextFragments, topScore, t)>>]]

\* The file after saveUnansweredMessage: data with the entry pushed on
\* data[sessionId], written over the file.
saveUnansweredMessage(file, sessionId, userMessage, contextFragments, topScore, t) ==
  [state |-> "json",
   data |-> [LogRead(file) EXCEPT ![sessionId] =
               Append(@, UnansweredEntry(userMessage, contextFragments,
                                         topScore, t))]]

(***************************************************************************)
(* The /chat handlers.  The server listens before the listen callback      *)
(* runs, and the callback runs before any request is taken.                *)
(***************************************************************************)
Listening == load.pc # "start"

\* The sessionId of a request body: "" is a missing one.
RequestIds == SessionIds \cup {""}

\* The requests are numbered as they arrive.
Arrives(r) == req[r].pc = "new" /\ (r = "r1" \/ req["r1"].pc # "new")

\* The handler's first lines on a session: the session is looked up or
\* created, its lastActive refreshed and the user's message pushed.
Begun(sessionId, message, user) ==
  LET op == Opened(sessionId)
  IN [o |-> op.o, sessions |-> op.sessions, objs |-> Push(op.objs, op.o, user)]

\* The handler of request r goes on holding the session object o.
Held(r, sessionId, message, o) ==
  [req[r] EXCEPT !.sid = sessionId, !.msg = message, !.obj = o,
                 !.duringLoad = LoadRunning]

\* retrieveContext finds the store empty and returns null at once.
FoundEmpty(rq) == [rq EXCEPT !.retrieved = TRUE, !.ctx = NullContext, !.seen = 0]

\* retrieveContext returned ret, having ranked the store or not.
Retrieved(rq, ret) ==
  [rq EXCEPT !.retrieved = TRUE, !.ctx = ret.context,
             !.seen = IF ret.embedded THEN Len(knowledgeBase) ELSE @,
             !.duringLoad = @ \/ LoadRunning]

\* The echo server (src/src/server.ts): the whole handler is synchronous.
EchoChat(r) ==
  /\ rev = "echo"
  /\ Arrives(r)
  /\ \E sessionId \in RequestIds, message \in ChatMessages :
       IF sessionId = ""
       THEN /\ req' = [req EXCEPT ![r] =
                         Responded(Held(r, sessionId, message, 0), 400,
                                   MISSING_FIELDS, FALSE)]
            /\ UNCHANGED <<sessions, objs, appends>>
       ELSE LET user == EchoMessage("user", message, sessionId, "user")
                respuesta == <<"#recibi">> \o message \o <<"\"">>
                reply == EchoMessage("assistant", respuesta, sessionId, "canned")
                b == Begun(sessionId, message, user)
            IN /\ sessions' = b.sessions
               /\ objs' = Push(b.objs, b.o, reply)
               /\ appends' = [appends EXCEPT ![sessionId] = @ \o <<user, reply>>]
               /\ req' = [req EXCEPT ![r] =
                            Responded(Held(r, sessionId, message, 0), 200,
                                      respuesta, FALSE)]
  /\ UNCHANGED <<ragVars, rc, vc, fc, rev, cache, load, now, unanswered, expired>>

\* The general-knowledge revision (part_000:224-251), up to the first
\* await inside retrieveContext.
GeneralChat(r) ==
  /\ rev = "general"
  /\ Listening
  /\ Arrives(r)
  /\ \E sessionId \in RequestIds, message \in ChatMessages :
       IF sessionId = "" \/ message = <<>>
       THEN /\ req' = [req EXCEPT ![r] =
                         Responded(Held(r, sessionId, message, 0), 400,
                                   MISSING_FIELDS, FALSE)]
            /\ UNCHANGED <<sessions, objs, appends>>
       ELSE LET user == ChatMessage("user", message, sessionId, "user")
                b == Begun(sessionId, message, user)
                rq == Held(r, sessionId, message, b.o)
            IN /\ sessions' = b.sessions
               /\ objs' = b.objs
               /\ appends' = [appends EXCEPT ![sessionId] = Append(@, user)]
               /\ req' = [req EXCEPT ![r] =
                            IF knowledgeBase = <<>>
                            THEN [FoundEmpty(rq) EXCEPT !.pc = "llm",
                                                        !.called = TRUE]
                            ELSE [rq EXCEPT !.pc = "embed"]]
  /\ UNCHANGED <<ragVars, rc, vc, fc, rev, cache, load, now, unanswered, expired>>

\* The embedding of the question comes back: retrieveContext ranks and
\* returns, and the handler calls the generation backend, context or not.
GeneralRetrieved(r) ==
  /\ rev = "general"
  /\ req[r].pc = "embed"
  /\ \E out \in EmbedOutcomes(EmbeddingInput(ragRev, req[r].msg)) :
       LET ret == RankAndSelect(ragRev, knowledgeBase, req[r].msg,
                                DefaultArgs.topN, DefaultArgs.minWords,
                                DefaultArgs.minScore, out)
       IN req' = [req EXCEPT ![r] =
                    IF ret.status = "raised"
                    THEN [@ EXCEPT !.pc = "raised", !.obj = 0,
                                   !.duringLoad = @ \/ LoadRunning]
                    ELSE [Retrieved(@, ret) EXCEPT !.pc = "llm",
                                                   !.called = TRUE]]
  /\ objs' = Collected(sessions, objs, req')
  /\ UNCHANGED <<ragVars, rc, vc, fc, rev, cache, load, sessions, now, unanswered,
                 appends, expired>>

\* The generation backend comes back: the answer is pushed and returned.
GeneralGenerated(r) ==
  /\ rev = "general"
  /\ req[r].pc = "llm"
  /\ \E reply \in LLMReplies :
       LET g == generateAIResponse(reply)
           m == ChatMessage("assistant", g.text, req[r].sid, g.origin)
       IN /\ req' = [req EXCEPT ![r] =
                       [Responded(@, 200, g.text, ~Blank(req[r].ctx))
                          EXCEPT !.duringLoad = @ \/ LoadRunning,
                                 !.reply = reply.kind]]
          /\ objs' = Collected(sessions, Push(objs, req[r].obj, m), req')
          /\ appends' = [appends EXCEPT ![req[r].sid] = Append(@, m)]
  /\ UNCHANGED <<ragVars, rc, vc, fc, rev, cache, load, sessions, now, unanswered,
                 expired>>

\* The latest revision (part_001:571-622), up to the first await.
LatestChat(r) ==
  /\ rev = "latest"
  /\ Listening
  /\ Arrives(r)
  /\ \E sessionId \in RequestIds, message \in ChatMessages :
       IF sessionId = "" \/ message = <<>>
       THEN /\ req' = [req EXCEPT ![r] =
                         Responded(Held(r, sessionId, message, 0), 400,
                                   MISSING_FIELDS, FALSE)]
            /\ UNCHANGED <<sessions, objs, appends>>
       ELSE IF ~isValidMessage(message)
       THEN /\ req' = [req EXCEPT ![r] =
                         Responded(Held(r, sessionId, message, 0), 200,
                                   INVALID_MESSAGE, FALSE)]
            /\ UNCHANGED <<sessions, objs, appends>>
       ELSE LET user == ChatMessage("user", message, sessionId, "user")
                saludo == ChatMessage("assistant", SALUDO, sessionId, "canned")
                b == Begun(sessionId, message, user)
                rq == Held(r, sessionId, message, b.o)
            IN /\ sessions' = b.sessions
               /\ IF isGreeting(message)
                  THEN /\ objs' = Push(b.objs, b.o, saludo)
                       /\ appends' = [appends EXCEPT ![sessionId] =
                                        @ \o <<user, saludo>>]
                       /\ req' = [req EXCEPT ![r] =
                                    Responded(rq, 200, SALUDO, FALSE)]
                  ELSE /\ objs' = b.objs
                       /\ appends' = [appends EXCEPT ![sessionId] =
                                        Append(@, user)]
                       /\ req' = [req EXCEPT ![r] =
                                    IF knowledgeBase = <<>>
                                    THEN [FoundEmpty(rq) EXCEPT !.pc = "embed2"]
                                    ELSE [rq EXCEPT !.pc = "embed"]]
  /\ UNCHANGED <<ragVars, rc, vc, fc, rev, cache, load, now, unanswered, expired>>

\* retrieveContext(message, 2, 5, 0.65) finishes and the handler asks for
\* the embedding of the message once more.
LatestRetrieved(r) ==
  /\ rev = "latest"
  /\ req[r].pc = "embed"
  /\ \E out \in EmbedOutcomes(EmbeddingInput(ragRev, req[r].msg)) :
       LET ret == RankAndSelect(ragRev, knowledgeBase, req[r].msg, 2, 5,
                                Ratio(65, 100), out)
       IN req' = [req EXCEPT ![r] = [Retrieved(@, ret) EXCEPT !.pc = "embed2"]]
  /\ UNCHANGED <<ragVars, rc, vc, fc, rev, cache, load, sessions, objs, now,
                 unanswered, appends, expired>>

\* knowledgeBase.map(cosineSimilarity).sort((a, b) => b - a)[0] ?? 0
TopScore(q) ==
  IF q.tag = "vec" /\ knowledgeBase # <<>>
  THEN Ranked(knowledgeBase, q.vec)[1].score
  ELSE Ratio(0, 1)

\* The handler's own embedding comes back: without a usable context or
\* with a top score under STRICT_THRESHOLD the question is logged and the
\* warning is pushed and returned; otherwise the generation backend is
\* called.
LatestEmbedded(r) ==
  /\ rev = "latest"
  /\ req[r].pc = "embed2"
  /\ \E out \in EmbedOutcomes(EmbeddingInput(ragRev, req[r].msg)) :
       LET topScore == TopScore(getEmbedding(ragRev, req[r].msg, FALSE, out))
           context == req[r].ctx
           m == ChatMessage("assistant", WARNING_MESSAGE, req[r].sid, "canned")
           fragments == IF context.isNull \/ context.text = <<>>
                        THEN <<>> ELSE <<context.text>>
       IN IF Blank(context) \/ Lt(topScore, STRICT_THRESHOLD)
          THEN /\ unanswered' = saveUnansweredMessage(unanswered, req[r].sid,
                                   req[r].msg, fragments, topScore, now)
               /\ req' = [req EXCEPT ![r] =
                            [Responded(@, 200, WARNING_MESSAGE, FALSE)
                               EXCEPT !.duringLoad = @ \/ LoadRunning]]
               /\ objs' = Collected(sessions, Push(objs, req[r].obj, m), req')
               /\ appends' = [appends EXCEPT ![req[r].sid] = Append(@, m)]
          ELSE /\ req' = [req EXCEPT ![r] =
                            [@ EXCEPT !.pc = "llm", !.called = TRUE,
                                      !.duringLoad = @ \/ LoadRunning]]
               /\ UNCHANGED <<objs, unanswered, appends>>
  /\ UNCHANGED <<ragVars, rc, vc, fc, rev, cache, load, sessions, now, expired>>

\* The generation backend comes back: the answer is pushed as it is and
\* returned.
LatestGenerated(r) ==
  /\ rev = "latest"
  /\ req[r].pc = "llm"
  /\ \E reply \in LLMReplies :
       LET g == generateAIResponse(reply)
           m == ChatMessage("assistant", g.text, req[r].sid, g.origin)
       IN /\ req' = [req EXCEPT ![r] =
                       [Responded(@, 200, g.text, TRUE)
                          EXCEPT !.duringLoad = @ \/ LoadRunning,
                                 !.reply = reply.kind]]
          /\ objs' = Collected(sessions, Push(objs, req[r].obj, m), req')
          /\ appends' = [appends EXCEPT ![req[r].sid] = Append(@, m)]
  /\ UNCHANGED <<ragVars, rc, vc, fc, rev, cache, load, sessions, now, unanswered,
                 expired>>

(***************************************************************************)
(* Spec: the server from its start.                                        *)
(***************************************************************************)
\* No cache file, or the cache an earlier run wrote.
Caches(rrev) == {NoCache, [exists |-> TRUE, chunks |-> FullStore(rrev)]}

Init ==
  /\ \E p \in Pairings : rev = p[1] /\ ragRev = p[2]
  /\ cache \in Caches(ragRev)
  /\ knowledgeBase = <<>>
  /\ load = [pc |-> IF rev = "echo" THEN "done" ELSE "start", i |-> 0,
            outs |-> <<>>]
  /\ sessions = [s \in SessionIds |-> 0]
  /\ objs = [o \in ObjIds |-> NoObj]
  /\ req = [r \in ReqIds |-> NewReq]
  /\ now = 0
  /\ unanswered = NoLog
  /\ appends = [s \in SessionIds |-> <<>>]
  /\ expired = {}
  /\ rc = NoCall
  /\ vc = NoCall
  /\ fc = NoCall

Next ==
  \/ LoadKnowledge
  \/ LoadRead
  \/ LoadEmbedded
  \/ LoadPaused
  \/ Tick
  \/ \E r \in ReqIds : EchoChat(r)
  \/ \E r \in ReqIds : GeneralChat(r)
  \/ \E r \in ReqIds : GeneralRetrieved(r)
  \/ \E r \in ReqIds : GeneralGenerated(r)
  \/ \E r \in ReqIds : LatestChat(r)
  \/ \E r \in ReqIds : LatestRetrieved(r)
  \/ \E r \in ReqIds : LatestEmbedded(r)
  \/ \E r \in ReqIds : LatestGenerated(r)

Spec == Init /\ [][Next]_vars

(***************************************************************************)
(* Properties of the server.                                               *)
(***************************************************************************)
\* C2: whenever retrieval yields no usable context (null or blank) the
\* handler never calls the generation backend for that request and answers
\* with the canned refusal.
C2_NoContextNoGeneration ==
  \A r \in ReqIds :
    (req[r].retrieved /\ Blank(req[r].ctx)) =>
      /\ ~req[r].called
      /\ req[r].pc = "done" => req[r].resp.text = Plain(WARNING_MESSAGE)

\* C4: every assistant message of a session whose content came from the
\* generation backend has passed the validator (accept or low confidence).
C4_StoredAnswersValidated ==
  \A o \in ObjIds : \A i \in 1..Len(objs[o].messages) :
    LET m == objs[o].messages[i]
    IN (m.role = "assistant" /\ m.origin = "generated") =>
         m.verdict \in {"accept", "low_confidence"}

\* C9: the store is built before serving begins: no step of a chat handler
\* runs while loadKnowledge is running, and no retrieval observes a store
\* smaller than the one the load ends with.
C9_StoreBuiltBeforeServing ==
  \A r \in ReqIds :
    /\ ~req[r].duringLoad
    /\ (load.pc = "done" /\ req[r].seen # -1) =>
         req[r].seen = Len(knowledgeBase)

\* C10: for requests carrying distinct session ids, however their steps
\* interleave, the message list of each session that no sweep has deleted
\* holds exactly the messages appended by the requests carrying its id, in
\* the order of the appends, and no message of another id.
C10_SessionsIsolated ==
  /\ \A sid \in SessionIds \ expired :
       IF sessions[sid] = 0 THEN appends[sid] = <<>>
       ELSE objs[sessions[sid]].messages = appends[sid]
  /\ \A sid \in SessionIds :
       sessions[sid] # 0 =>
         /\ \A i \in 1..Len(objs[sessions[sid]].messages) :
              objs[sessions[sid]].messages[i].sid = sid
         /\ \A other \in SessionIds \ {sid} : sessions[other] # sessions[sid]

C10_Witness ==
  /\ rev # "echo"
  /\ \A r \in ReqIds : req[r].pc = "done" /\ req[r].sid \in SessionIds
  /\ req["r1"].sid # req["r2"].sid
  /\ expired = {}
  /\ \A sid \in SessionIds :
       /\ sessions[sid] # 0
       /\ Len(objs[sessions[sid]].messages) = 2
       /\ objs[sessions[sid]].messages[2].role = "assistant"

\* C11: a session in use by an in-flight handler is never lost to the
\* sweep: the Session object a handler holds, and pushes its messages to,
\* is the one stored under the request's id.
C11_HeldSessionStored ==
  \A r \in ReqIds :
    req[r].obj # 0 => sessions[req[r].sid] = req[r].obj

(***************************************************************************)
(* SpecSweep: the session store under the sweep, one interval at a time,   *)
(* in the echo server and in the latest revision started on a cache.       *)
(***************************************************************************)
\* The sweep runs once per interval.
SweepSteps == {1}

Sweep == Elapse(SweepSteps)

SweepInit ==
  /\ Init
  /\ rev \in {"echo", "latest"}
  /\ cache.exists

SweepNext ==
  \/ LoadKnowledge
  \/ Sweep
  \/ \E r \in ReqIds : EchoChat(r)
  \/ \E r \in ReqIds : LatestChat(r)
  \/ \E r \in ReqIds : LatestRetrieved(r)
  \/ \E r \in ReqIds : LatestEmbedded(r)
  \/ \E r \in ReqIds : LatestGenerated(r)

SpecSweep == SweepInit /\ [][SweepNext]_vars

\* C12: a sweep at time t leaves no session with t - lastActive greater
\* than the expiration window in the store, and leaves every session with
\* t - lastActive within the window in place with its messages unchanged,
\* however many messages it holds.
C12_SweepExact ==
  [][now' # now =>
       \A sid \in SessionIds :
         sessions[sid] # 0 =>
           IF now' - objs[sessions[sid]].lastActive > 30 * 60 * 1000
           THEN sessions'[sid] = 0
           ELSE /\ sessions'[sid] = sessions[sid]
                /\ objs'[sessions[sid]] = objs[sessions[sid]]]_vars

\* A sweep deleted one session and left another that had been idle for
\* exactly the window, with its messages.
C12_Witness ==
  \E a \in SessionIds, b \in SessionIds :
    /\ a \in expired
    /\ sessions[a] = 0
    /\ sessions[b] # 0
    /\ now - objs[sessions[b]].lastActive = SESSION_EXPIRATION
    /\ Len(objs[sessions[b]].messages) >= 2

(***************************************************************************)
(* Retrieval under the margin/keyword policy (part_004), the               *)
(* retrieveContext that the hybrid-validation server imports.              *)
(***************************************************************************)
MIN_THRESHOLD == Ratio(65, 100)
MARGIN == Ratio(5, 100)
MAX_CHUNKS == 3

IsSquare(n) == \E k \in 0..n : k * k = n
Root(n) == CHOOSE k \in 0..n : k * k = n

\* x - y < m for scores x, y and a positive m: on the roots when every
\* term is the square of an integer, otherwise, for x >= y, by
\* (x - y)^2 < m^2, that is x^2 + y^2 - m^2 < 2xy.
DiffBelow(x, y, m) ==
  IF \A v \in {x.n, x.d, y.n, y.d, m.n, m.d} : IsSquare(v)
  THEN (x.s * Root(x.n) * Root(y.d) - y.s * Root(y.n) * Root(x.d)) * Root(m.d)
         < Root(m.n) * Root(x.d) * Root(y.d)
  ELSE IF Lt(x, y) THEN TRUE
  ELSE LET D == x.d * y.d
           N == x.n * y.n
           R == m.d * (x.n * y.d + y.n * x.d) - m.n * D
           T == 4 * m.d * m.d * N * D
       IN IF x.s * y.s >= 0 THEN R < 0 \/ R * R < T
          ELSE R < 0 /\ R * R > T

\* \W: anything but a letter, a digit or the underscore.
IsWordChar(c) == IsLetter(c) \/ c \in Digits \/ c = "_"

\* text.split(/\W+/): the pieces between runs of non-word characters.
RECURSIVE SplitNonWord(_)
SplitNonWord(t) ==
  IF \A i \in 1..Len(t) : IsWordChar(t[i]) THEN <<t>>
  ELSE LET a == CHOOSE i \in 1..Len(t) :
                  ~IsWordChar(t[i]) /\ \A j \in 1..(i - 1) : IsWordChar(t[j])
           b == CHOOSE i \in a..Len(t) :
                  /\ \A j \in a..i : ~IsWordChar(t[j])
                  /\ (i = Len(t) \/ IsWordChar(t[i + 1]))
       IN <<SubSeq(t, 1, a - 1)>> \o SplitNonWord(SubSeq(t, b + 1, Len(t)))

\* The members of STOPWORDS among the words of the texts enumerated.
MarginStopWords ==
  { <<"c", "o", "m", "o">>, <<"p", "a", "r", "a">>, <<"p", "e", "r", "o">>,
    <<"t", "o", "d", "o">>, <<"e", "s", "t", "a">>, <<"e", "s", "t", "e">> }

extractKeywords(text) ==
  SelectSeq(SplitNonWord(ToLower(text)),
            LAMBDA w : Len(w) > 3 /\ w \notin MarginStopWords)

\* What the identifier knowledge of part_004 resolves to.  The module
\* imports knowledgeBase from ./rag.js and declares no knowledge, and no
\* other file of the repository defines one: evaluating it raises a
\* ReferenceError.
Unbound == [bound |-> FALSE, chunks |-> <<>>]
KnowledgeBinding(kb) == Unbound

\* The lines after the embedding test, over the chunks that knowledge
\* names: the ranking, the minimum score of the best passage, the margin
\* between the first two, the keyword test and the selection.
MarginSelect(chunks, embedding, question) ==
  LET ranked == Ranked(chunks, embedding)
      best == ranked[1]
      keywords == extractKeywords(question)
      containsKeyword ==
        \E i \in 1..Len(keywords) : Includes(ToLower(best.text), keywords[i])
      relevant == Slice0(SelectSeq(ranked,
                                   LAMBDA r : Geq(r.score, MIN_THRESHOLD)),
                         MAX_CHUNKS)
  IN IF ranked = <<>> \/ Lt(best.score, MIN_THRESHOLD) THEN <<>>
     ELSE IF Len(ranked) >= 2 /\ DiffBelow(best.score, ranked[2].score, MARGIN)
     THEN <<>>
     ELSE IF ~containsKeyword THEN <<>>
     ELSE JoinBlank([i \in 1..Len(relevant) |-> relevant[i].text])

\* retrieveContext(question) of part_004 with the rag module rrev, given
\* the backend's answer to its embedding call: the string it returns, or
\* that it raised.  getEmbedding is called without options; a thrown
\* error goes through, a null embedding fails at embedding.length, an
\* empty one returns "", and any other reaches knowledge.map.
marginRetrieveContext(rrev, kb, question, out) ==
  LET q == getEmbedding(rrev, question, FALSE, out)
      knowledge == KnowledgeBinding(kb)
      raised == [status |-> "raised", text |-> <<>>]
  IN IF q.tag # "vec" THEN raised
     ELSE IF q.vec = <<>> THEN [status |-> "returned", text |-> <<>>]
     ELSE IF ~knowledge.bound THEN raised
     ELSE [status |-> "returned",
           text |-> MarginSelect(knowledge.chunks, q.vec, question)]

(***************************************************************************)
(* SpecMargin: retrieveContext of part_004 as a function of the store,     *)
(* the question and the backend's answer.                                  *)
(***************************************************************************)
\* Embeddings whose cosines are rational: against <<3, 4>> they are 0.6,
\* 0.96, 1 and 0.8.
MarginVecs == { <<1, 0>>, <<4, 3>>, <<3, 4>>, <<0, 1>> }

MarginStores ==
  UNION {[1..k -> {Chunk(t, e) : t \in {DocChunks[1], DocChunks[2]},
                                 e \in MarginVecs}] : k \in 0..MaxChunks}

MarginOutcomes ==
  {Failed(k) : k \in FailKinds}
  \cup {Answered(v) : v \in {<<>>, <<1, 0>>, <<3, 4>>}}

\* "horas", "hi" and "como esta", whose words are all stopwords.
MarginQuestions ==
  Questions \cup { <<"c", "o", "m", "o", " ", "e", "s", "t", "a">> }

MarginInit ==
  /\ ragRev \in RagRevs
  /\ knowledgeBase \in MarginStores
  /\ rc = NoCall
  /\ vc = NoCall
  /\ fc = NoCall
  /\ ServerIdle

MarginCall ==
  /\ rc.pc = "idle"
  /\ \E question \in MarginQuestions, out \in MarginOutcomes :
       rc' = [pc |-> "done", question |-> question, out |-> out,
              ret |-> marginRetrieveContext(ragRev, knowledgeBase,
                                            question, out)]
  /\ UNCHANGED <<ragVars, vc, fc, serverVars>>

MarginNext == MarginCall

SpecMargin == MarginInit /\ [][MarginNext]_vars

\* C13: under the margin/keyword policy, when a second-ranked passage
\* exists and the score of the first exceeds the score of the second by
\* less than MARGIN (0.05), retrieveContext returns the empty result, even
\* when both scores reach the minimum score.
C13_MarginForcesEmpty ==
  (/\ rc.pc = "done"
   /\ rc.out.kind = "ok"
   /\ rc.out.vec # <<>>
   /\ Len(knowledgeBase) >= 2
   /\ LET ranked == Ranked(knowledgeBase, rc.out.vec)
      IN /\ Geq(ranked[2].score, Ratio(65, 100))
         /\ DiffBelow(ranked[1].score, ranked[2].score, Ratio(5, 100)))
  => /\ rc.ret.status = "returned"
     /\ rc.ret.text = <<>>

(***************************************************************************)
(* cosineSimilarity in double precision.  HUGE stands for a finite         *)
(* component whose square is beyond the largest double (1e200): its        *)
(* square is Infinity, its product with 0 is 0, with another number a      *)
(* finite number; Math.sqrt(Infinity) is Infinity, 0 * Infinity and        *)
(* Infinity / Infinity are NaN, and a finite number over Infinity is 0.    *)
(***************************************************************************)
MaxDim == 2

HUGE == 99

Num(x) == [tag |-> "num", score |-> x]
NaN == [tag |-> "nan", score |-> MkScore(0, 0, 1)]

HasHuge(v, k) == \E i \in 1..k : v[i] = HUGE

\* The sum of the squares of v's first k components: "inf", "zero" or
\* "pos".
SquareSum(v, k) ==
  IF HasHuge(v, k) THEN "inf"
  ELSE IF SumTo([i \in 1..k |-> v[i] * v[i]], k) = 0 THEN "zero"
  ELSE "pos"

\* The product of the two square roots: NaN for 0 * Infinity.
RootProduct(x, y) ==
  IF {x, y} = {"inf", "zero"} THEN "nan"
  ELSE IF "inf" \in {x, y} THEN "inf"
  ELSE IF "zero" \in {x, y} THEN "zero"
  ELSE "pos"

\* The dot product over the first k components is Infinity when two HUGE
\* components meet, and finite otherwise.
DotOverflows(a, b, k) == \E i \in 1..k : a[i] = HUGE /\ b[i] = HUGE

\* cosineSimilarity(a, b) of the rag module:
\* denominator === 0 ? 0 : dot / denominator
cosineOf(a, b) ==
  LET length == Min(Len(a), Len(b))
      denominator == RootProduct(SquareSum(a, length), SquareSum(b, length))
  IN IF length = 0 THEN Num(MkScore(0, 0, 1))
     ELSE IF ~HasHuge(a, length) /\ ~HasHuge(b, length)
     THEN Num(cosineSimilarity(a, b))
     ELSE IF denominator = "nan" THEN NaN
     ELSE IF DotOverflows(a, b, length) THEN NaN
     ELSE Num(MkScore(0, 0, 1))

\* cosineSimilarity(vecA, vecB) of the validator:
\* dot / (normA * normB || 1e-9), a NaN or zero product giving 1e-9.
valCosineOf(vecA, vecB) ==
  LET denom == RootProduct(SquareSum(vecA, Len(vecA)),
                           SquareSum(vecB, Len(vecB)))
  IN IF ~HasHuge(vecA, Len(vecA)) /\ ~HasHuge(vecB, Len(vecB))
     THEN Num(valCosine(vecA, vecB))
     ELSE IF denom \in {"nan", "zero"} THEN Num(MkScore(0, 0, 1))
     ELSE IF DotOverflows(vecA, vecB, Min(Len(vecA), Len(vecB))) THEN NaN
     ELSE Num(MkScore(0, 0, 1))

(***************************************************************************)
(* SpecCosine: the two cosineSimilarity functions on a pair of vectors,    *)
(* in both orders.                                                         *)
(***************************************************************************)
Components == {-1, 0, 1, HUGE}

Vectors == UNION {[1..k -> Components] : k \in 0..MaxDim}

CosineInit ==
  /\ ragRev \in RagRevs
  /\ knowledgeBase = <<>>
  /\ rc = NoCall
  /\ vc = NoCall
  /\ fc = NoCall
  /\ ServerIdle

CosineCall ==
  /\ fc.pc = "idle"
  /\ \E a \in Vectors, b \in Vectors :
       fc' = [pc |-> "cosine", a |-> a, b |-> b,
              ab |-> cosineOf(a, b), ba |-> cosineOf(b, a),
              vab |-> valCosineOf(a, b), vba |-> valCosineOf(b, a)]
  /\ UNCHANGED <<ragVars, rc, vc, serverVars>>

CosineNext == CosineCall

SpecCosine == CosineInit /\ [][CosineNext]_vars

\* All components zero, or none.
ZeroMagnitude(v) == \A i \in 1..Len(v) : v[i] = 0

\* C14: cosineSimilarity(a, b) is exactly 0 whenever a or b has zero
\* magnitude; it is then never the result of a division by zero nor a
\* value that is not a number.
C14_ZeroMagnitudeGivesZero ==
  (fc.pc = "cosine" /\ (ZeroMagnitude(fc.a) \/ ZeroMagnitude(fc.b))) =>
    /\ fc.ab = [tag |-> "num", score |-> [s |-> 0, n |-> 0, d |-> 1]]
    /\ fc.vab = [tag |-> "num", score |-> [s |-> 0, n |-> 0, d |-> 1]]

\* C15: cosineSimilarity(a, b) = cosineSimilarity(b, a) for vectors of
\* equal length, in the rag module and in the validator.
C15_Symmetric ==
  (fc.pc = "cosine" /\ Len(fc.a) = Len(fc.b)) =>
    /\ fc.ab = fc.ba
    /\ fc.vab = fc.vba

C15_Witness ==
  /\ fc.pc = "cosine"
  /\ Len(fc.a) = Len(fc.b)
  /\ Len(fc.a) >= 2
  /\ fc.a # fc.b
  /\ fc.ab = Num(MkScore(-1, 1, 2))
  /\ fc.vba = Num(MkScore(-1, 1, 2))

(***************************************************************************)
(* SpecLoad: loadKnowledge called several times in a row, with or without  *)
(* a cache file at the start, against a backend that may fail on any       *)
(* chunk.  fc keeps, as history, the cache file at the start and the       *)
(* store and cache file that each completed call left.                     *)
(***************************************************************************)
MaxLoads == 3

\* The backend's answers for a chunk: a failure, its vector, an empty
\* vector, or a vector with a component beyond the doubles.
LoadOutcomes(t) ==
  {Failed(k) : k \in FailKinds}
  \cup {Answered(EmbedOf(t)), Answered(<<>>), Answered(<<INFINITY, 1>>)}

\* No cache file, the cache of an earlier run, or one with no chunk.
LoadCaches(rrev) == Caches(rrev) \cup {[exists |-> TRUE, chunks |-> <<>>]}

LoadInit ==
  /\ ragRev \in RagRevs
  /\ cache \in LoadCaches(ragRev)
  /\ knowledgeBase = <<>>
  /\ load = [pc |-> "start", i |-> 0, outs |-> <<>>]
  /\ fc = [pc |-> "loads", first |-> cache, calls |-> <<>>]
  /\ rc = NoCall
  /\ vc = NoCall
  /\ rev = "echo"
  /\ sessions = [s \in SessionIds |-> 0]
  /\ objs = [o \in ObjIds |-> NoObj]
  /\ req = [r \in ReqIds |-> NewReq]
  /\ now = 0
  /\ unanswered = NoLog
  /\ appends = [s \in SessionIds |-> <<>>]
  /\ expired = {}

LoadEmbeddedAny ==
  Embedded(LoadOutcomes(EmbeddingInput(ragRev, DocChunks[load.i])))

\* loadKnowledge has returned and is called again.
LoadAgain ==
  /\ load.pc = "done"
  /\ Len(fc.calls) < MaxLoads - 1
  /\ fc' = [fc EXCEPT !.calls =
              Append(@, [store |-> knowledgeBase, file |-> cache])]
  /\ load' = [pc |-> "start", i |-> 0, outs |-> <<>>]
  /\ UNCHANGED <<ragVars, rc, vc, rev, cache, sessions, objs, req, now,
                 unanswered, appends, expired>>

LoadNext ==
  \/ LoadKnowledge
  \/ LoadRead
  \/ LoadEmbeddedAny
  \/ LoadPaused
  \/ LoadAgain

SpecLoad == LoadInit /\ [][LoadNext]_vars

\* The cache file as it was when the k-th call of loadKnowledge began.
ArtifactBefore(k) == IF k = 1 THEN fc.first ELSE fc.calls[k - 1].file

\* C16: two calls of loadKnowledge in a row on an existing cache artifact
\* leave the same chunk sequence in the store, and the artifact as it was.
C16_CacheLoadIdempotent ==
  (/\ fc.pc = "loads"
   /\ load.pc = "done"
   /\ Len(fc.calls) >= 1
   /\ ArtifactBefore(Len(fc.calls)).exists)
  => LET first == fc.calls[Len(fc.calls)]
     IN /\ knowledgeBase = first.store
        /\ first.file = ArtifactBefore(Len(fc.calls))
        /\ cache = first.file

C16_Witness ==
  /\ fc.pc = "loads"
  /\ load.pc = "done"
  /\ Len(fc.calls) >= 1
  /\ fc.first.exists
  /\ Len(knowledgeBase) = Len(DocChunks)
  /\ knowledgeBase = fc.calls[1].store

\* C17: the store that the cache-miss path leaves in memory equals the
\* store that the next call, a cache-hit load of the artifact it wrote,
\* produces: same chunks, same embeddings, same order.
C17_MissThenHitSameStore ==
  (/\ fc.pc = "loads"
   /\ load.pc = "done"
   /\ Len(fc.calls) >= 1
   /\ ~ArtifactBefore(Len(fc.calls)).exists)
  => knowledgeBase = fc.calls[Len(fc.calls)].store

\* The passages among the first k of the document whose embedding was not
\* omitted, each with the embedding getEmbedding returned.
RECURSIVE KeptUpTo(_)
KeptUpTo(k) ==
  IF k = 0 THEN <<>>
  ELSE KeptUpTo(k - 1)
       \o (IF load.outs[k].tag = "vec"
           THEN <<[text |-> DocChunks[k], embedding |-> load.outs[k].vec]>>
           ELSE <<>>)

\* C18: when a cache-miss loadKnowledge completes, every passage has been
\* tried, and the store holds exactly the passages whose embedding was not
\* omitted, in document order, each with its embedding.
C18_FailedPassagesSkipped ==
  (/\ fc.pc = "loads"
   /\ load.pc = "done"
   /\ ~ArtifactBefore(Len(fc.calls) + 1).exists)
  => /\ Len(load.outs) = Len(DocChunks)
     /\ [i \in 1..Len(knowledgeBase) |->
           [text |-> knowledgeBase[i].text,
            embedding |-> knowledgeBase[i].embedding]]
        = KeptUpTo(Len(DocChunks))

C18_Witness ==
  /\ fc.pc = "loads"
  /\ load.pc = "done"
  /\ Len(load.outs) = Len(DocChunks)
  /\ load.outs[1].tag # "vec"
  /\ load.outs[Len(DocChunks)].tag = "vec"
  /\ Len(knowledgeBase) = Len(DocChunks) - 1
  /\ knowledgeBase[Len(knowledgeBase)].text = DocChunks[Len(DocChunks)]

(***************************************************************************)
(* SpecEmbed: getEmbedding as a function of the text, the allowShort       *)
(* option and the backend's answer.                                        *)
(***************************************************************************)
\* "horas", "hi", the empty text, a text of control characters only and
\* "hi" followed by three control characters.
EmbedTexts ==
  Questions \cup { <<>>, <<"NUL", "NUL", "NUL", "NUL", "NUL">>,
                   <<"h", "i", "NUL", "NUL", "NUL">> }

\* The callers of getEmbedding: loadKnowledge on a passage of the document,
\* retrieveContext on the question, and the latest /chat handler on the
\* message it has validated and found not to be a greeting.
EmbedSites == {"loadKnowledge", "retrieveContext", "chat"}

\* The option a caller passes: retrieveContext of the rag_b revision passes
\* allowShort: true, every other caller leaves the default.
AllowShortAt(rv, site) == rv = "rag_b" /\ site = "retrieveContext"

\* The texts a caller can pass.
TextsAt(site) ==
  IF site = "chat"
  THEN {t \in EmbedTexts : isValidMessage(t) /\ ~isGreeting(t)}
  ELSE EmbedTexts

EmbedInit ==
  /\ ragRev \in RagRevs
  /\ knowledgeBase = <<>>
  /\ rc = NoCall
  /\ vc = NoCall
  /\ fc = NoCall
  /\ ServerIdle

EmbedCall ==
  /\ fc.pc = "idle"
  /\ \E site \in EmbedSites, out \in Outcomes \cup {Answered(<<>>)} :
     \E text \in TextsAt(site) :
       /\ site = "chat" => ragRev = "rag_b"
       /\ LET allowShort == AllowShortAt(ragRev, site)
          IN fc' = [pc |-> "embedded", site |-> site, text |-> text,
                    allowShort |-> allowShort, out |-> out,
                    ret |-> getEmbedding(ragRev, text, allowShort, out)]
  /\ UNCHANGED <<ragVars, rc, vc, serverVars>>

EmbedNext == EmbedCall

SpecEmbed == EmbedInit /\ [][EmbedNext]_vars

\* C19: for every backend outcome (network failure, non-2xx status,
\* unparsable body, response without the vector field, or a vector)
\* getEmbedding returns a vector or omitted, and never throws.
C19_EmbeddingNeverThrows ==
  fc.pc = "embedded" => fc.ret.tag \in {"vec", "null"}

(***************************************************************************)
(* Properties of the server on a failing generation backend.               *)
(***************************************************************************)
\* C20: when the call of the generation backend fails (the connection, or
\* the parsing of the body), the client receives the fixed apology in
\* place of an answer, and the session stored under the request's id
\* records the exchange: the user's message and, after it, the apology as
\* the assistant's message.
C20_GenerationFailureRecorded ==
  [][\A r \in ReqIds :
       (req[r].pc = "llm" /\ req'[r].pc = "done" /\ req'[r].reply = "netfail")
       => /\ req'[r].resp.text = Plain(LLM_UNREACHABLE)
          /\ sessions'[req[r].sid] # 0
          /\ LET ms == objs'[sessions'[req[r].sid]].messages
             IN /\ ms # <<>>
                /\ ms[Len(ms)].role = "assistant"
                /\ ms[Len(ms)].content = Plain(LLM_UNREACHABLE)
                /\ \E i \in 1..(Len(ms) - 1) :
                     /\ ms[i].role = "user"
                     /\ ms[i].content = Plain(req[r].msg)]_vars

\* A request the handler must turn away: its body lacks a field or its
\* message fails the validity check.
Rejected(rq) ==
  rq.sid = "" \/ rq.msg = <<>> \/ Len(Trim(rq.msg)) < 5
    \/ ~\E i \in 1..Len(Trim(rq.msg)) : IsLetter(Trim(rq.msg)[i])

\* C21: in the latest revision a chat request with a missing session id or
\* message, or whose message fails the validity check (trimmed length under
\* 5, or no letter), is answered at once with a canned response and causes
\* no call of the embedding backend or of the generation backend.
C21_InvalidRequestAnsweredAtOnce ==
  \A r \in ReqIds :
    (rev = "latest" /\ req[r].pc # "new" /\ Rejected(req[r])) =>
      /\ req[r].pc = "done"
      /\ req[r].resp.text \in {Plain(MISSING_FIELDS), Plain(INVALID_MESSAGE)}
      /\ ~req[r].retrieved /\ req[r].seen = -1
      /\ ~req[r].called /\ req[r].reply = "none"

\* Both kinds of invalid message have been answered and no session was made.
C21_Witness ==
  /\ rev = "latest"
  /\ req["r1"].pc = "done" /\ req["r1"].sid = "A"
  /\ req["r1"].msg = DigitsText
  /\ req["r1"].resp.text = Plain(INVALID_MESSAGE)
  /\ req["r2"].pc = "done" /\ req["r2"].sid = "A"
  /\ req["r2"].msg = <<"h", "i">>
  /\ sessions["A"] = 0

\* C22: whenever the latest handler refuses for insufficient grounding (no
\* usable context, or a top score under the strict threshold), exactly one
\* record with that message and top score is appended to the log under the
\* request's session id, and a request that is answered appends none.
C22_RefusalLoggedOnce ==
  [][\A r \in ReqIds :
       (rev = "latest" /\ req[r].pc # "done" /\ req'[r].pc = "done") =>
         IF req'[r].resp.text = Plain(WARNING_MESSAGE)
         THEN LET sid == req[r].sid
                  before == unanswered.data[sid]
                  after == unanswered'.data[sid]
              IN /\ unanswered'.state = "json"
                 /\ Len(after) = Len(before) + 1
                 /\ SubSeq(after, 1, Len(before)) = before
                 /\ after[Len(after)].message = req[r].msg
                 /\ \E out \in EmbedOutcomes(EmbeddingInput(ragRev, req[r].msg)) :
                      /\ after[Len(after)].topScore =
                           TopScore(getEmbedding(ragRev, req[r].msg, FALSE, out))
                      /\ \/ Blank(req[r].ctx)
                         \/ Lt(after[Len(after)].topScore, STRICT_THRESHOLD)
                 /\ \A other \in SessionIds \ {sid} :
                      unanswered'.data[other] = unanswered.data[other]
         ELSE unanswered' = unanswered]_vars

\* One request was refused and logged with a top score that is not 0, the
\* other was answered by the generation backend under the same id.
C22_Witness ==
  \E r, q \in ReqIds :
    /\ rev = "latest" /\ r # q
    /\ req[r].pc = "done" /\ req[q].pc = "done"
    /\ req[r].sid = req[q].sid /\ req[r].sid \in SessionIds
    /\ req[r].resp.text = Plain(WARNING_MESSAGE)
    /\ req[q].reply = "ok"
    /\ Len(unanswered.data[req[r].sid]) = 1
    /\ unanswered.data[req[r].sid][1].topScore # Ratio(0, 1)

(***************************************************************************)
(* SpecSave: saveUnansweredMessage called again and again on a log file    *)
(* that an earlier run left behind.                                        *)
(***************************************************************************)
MaxSaves == 2

\* What an earlier run logged: nothing, one question under "A", or two
\* under "A" and one under "B".
PriorRecords ==
  LET first == UnansweredEntry(QuestionText, <<>>, Ratio(0, 1), 0)
      second == UnansweredEntry(DigitsText, <<DocChunks[1]>>, Ratio(13, 20), 0)
  IN { NoRecords,
       [NoRecords EXCEPT !["A"] = <<first>>],
       [NoRecords EXCEPT !["A"] = <<first, second>>, !["B"] = <<second>>] }

\* The file is absent, holds the records as JSON, or holds them in a text
\* that was cut short.
LogFiles ==
  {NoLog} \cup {[state |-> st, data |-> d] :
                  st \in {"json", "damaged"}, d \in PriorRecords \ {NoRecords}}

SaveInit ==
  /\ \E p \in Pairings : rev = p[1] /\ ragRev = p[2]
  /\ rev = "latest"
  /\ unanswered \in LogFiles
  /\ knowledgeBase = <<>>
  /\ cache = NoCache
  /\ load = [pc |-> "done", i |-> 0, outs |-> <<>>]
  /\ sessions = [s \in SessionIds |-> 0]
  /\ objs = [o \in ObjIds |-> NoObj]
  /\ req = [r \in ReqIds |-> NewReq]
  /\ now = 0
  /\ appends = [s \in SessionIds |-> <<>>]
  /\ expired = {}
  /\ rc = NoCall
  /\ vc = NoCall
  /\ fc = [pc |-> "saves", n |-> 0, before |-> unanswered]

\* saveUnansweredMessage(sessionId, userMessage, contextFragments, topScore)
SaveCall ==
  /\ fc.pc = "saves"
  /\ fc.n < MaxSaves
  /\ \E sessionId \in SessionIds, userMessage \in {QuestionText, DigitsText},
        contextFragments \in { <<>>, <<DocChunks[1]>> },
        topScore \in {Ratio(0, 1), Ratio(13, 20)} :
       unanswered' = saveUnansweredMessage(unanswered, sessionId, userMessage,
                                           contextFragments, topScore, now)
  /\ fc' = [pc |-> "saves", n |-> fc.n + 1, before |-> unanswered]
  /\ UNCHANGED <<ragVars, rc, vc, rev, cache, load, sessions, objs, req, now,
                 appends, expired>>

SaveNext == SaveCall

SpecSave == SaveInit /\ [][SaveNext]_vars

\* C23: the log is append-only: for every call of saveUnansweredMessage and
\* every prior content of the file, each record that was in the file before
\* the call is in it after the call, unmodified and in the same order under
\* the same session id.
C23_LogAppendOnly ==
  fc.n > 0 =>
    \A sid \in SessionIds :
      /\ Len(unanswered.data[sid]) >= Len(fc.before.data[sid])
      /\ SubSeq(unanswered.data[sid], 1, Len(fc.before.data[sid]))
           = fc.before.data[sid]

(***************************************************************************)
(* SpecHang: the latest server with backends that may stay silent.  The    *)
(* listen callback is scheduled, so loadKnowledge runs; a step that        *)
(* resumes a handler needs the backend's answer, which nothing promises,   *)
(* and neither fetch is given a timeout or an abort signal, so no step     *)
(* resumes a handler without it.                                           *)
(***************************************************************************)
HangInit == Init /\ rev = "latest" /\ cache.exists

HangNext ==
  \/ LoadKnowledge
  \/ \E r \in ReqIds : LatestChat(r)
  \/ \E r \in ReqIds : LatestRetrieved(r)
  \/ \E r \in ReqIds : LatestEmbedded(r)
  \/ \E r \in ReqIds : LatestGenerated(r)

SpecHang == HangInit /\ [][HangNext]_vars /\ WF_vars(LoadKnowledge)

\* The handler of r is suspended on a call of a backend.
Awaiting(r) == req[r].pc \in {"embed", "embed2", "llm"}

\* C24: the calls of the embedding backend and of the generation backend
\* have a bounded timeout: a chat request whose backend call never returns
\* still eventually completes with a response to the client.
C24_HungCallCompletes ==
  \A r \in ReqIds : Awaiting(r) ~> req[r].pc = "done"

(***************************************************************************)
(* SpecRank: retrieveContext with its default arguments over stores of up  *)
(* to MaxRanked chunks, scores that tie included.                          *)
(***************************************************************************)
MaxRanked == 3

\* The two passages of the document under three embeddings: against the
\* query <<1, 0>> they score 1, 0.707.. and 0.6, against <<1, 1>> 0.707..,
\* 1 and 0.989...
RankChunks ==
  {Chunk(DocChunks[k], e) : k \in 1..2, e \in { <<1, 0>>, <<1, 1>>, <<3, 4>> }}

RankStores == UNION {[1..k -> RankChunks] : k \in 1..MaxRanked}

RankOutcomes == {Failed("netfail"), Answered(<<1, 0>>), Answered(<<1, 1>>)}

RankInit ==
  /\ ragRev \in RagRevs
  /\ knowledgeBase \in RankStores
  /\ rc = NoCall
  /\ vc = NoCall
  /\ fc = NoCall
  /\ ServerIdle

RankCall ==
  /\ rc.pc = "idle"
  /\ \E out \in RankOutcomes :
       rc' = [pc |-> "done", question |-> QuestionText,
              topN |-> DefaultArgs.topN, minWords |-> DefaultArgs.minWords,
              minScore |-> DefaultArgs.minScore, out |-> out,
              ret |-> retrieveContext(ragRev, knowledgeBase, QuestionText,
                                      DefaultArgs.topN, DefaultArgs.minWords,
                                      DefaultArgs.minScore, out)]
  /\ UNCHANGED <<ragVars, vc, fc, serverVars>>

RankNext == RankCall

SpecRank == RankInit /\ [][RankNext]_vars

\* The orders in which the n chunks of a store can be listed.
Orders(n) == {p \in [1..n -> 1..n] : \A i, j \in 1..n : p[i] = p[j] => i = j}

\* The entry of the ranking for the chunk at position k of the store.
Scored(k) ==
  [text |-> knowledgeBase[k].text,
   score |-> cosineSimilarity(rc.out.vec, knowledgeBase[k].embedding)]

\* C25: the ranked list built by retrieveContext holds the chunks of the
\* store sorted by descending score, and chunks with equal scores appear in
\* ascending store order, so the list is determined by the store and the
\* query embedding.
C25_RankedDescendingStable ==
  (rc.pc = "done" /\ rc.ret.embedded) =>
    \E p \in Orders(Len(knowledgeBase)) :
      /\ rc.ret.ranked = [i \in 1..Len(knowledgeBase) |-> Scored(p[i])]
      /\ \A i, j \in 1..Len(knowledgeBase) :
           i < j =>
             \/ Cmp(Scored(p[i]).score, Scored(p[j]).score) = 1
             \/ Cmp(Scored(p[i]).score, Scored(p[j]).score) = 0 /\ p[i] < p[j]

\* The second chunk scores most and goes first; the first and the third,
\* of different texts, score the same and keep the store's order.
C25_Witness ==
  /\ rc.pc = "done" /\ rc.ret.embedded
  /\ Len(knowledgeBase) = 3
  /\ knowledgeBase[1].text # knowledgeBase[3].text
  /\ Cmp(Scored(2).score, Scored(1).score) = 1
  /\ Cmp(Scored(1).score, Scored(3).score) = 0
  /\ Scored(1).score # Ratio(0, 1)
  /\ rc.ret.ranked = <<Scored(2), Scored(1), Scored(3)>>

(***************************************************************************)
(* Properties of the margin/keyword policy, under SpecMargin.              *)
(***************************************************************************)
\* C26: under the margin/keyword policy a non-empty result is returned only
\* if the text of the top-ranked passage contains a content keyword of the
\* query (a word longer than 3 characters that is not a stopword), and a
\* query from which no keyword can be extracted always yields the empty
\* result.
C26_KeywordGate ==
  rc.pc = "done" =>
    /\ (rc.ret.status = "returned" /\ rc.ret.text # <<>>) =>
         \E i \in 1..Len(extractKeywords(rc.question)) :
           Includes(ToLower(Ranked(knowledgeBase, rc.out.vec)[1].text),
                    extractKeywords(rc.question)[i])
    /\ extractKeywords(rc.question) = <<>> =>
         rc.ret.status = "returned" /\ rc.ret.text = <<>>

\* C27: the margin/keyword policy refines the score/length policy over the
\* same ranked list: for every store and query embedding its result is
\* either empty or equal to the result of the score/length retrieveContext
\* with topN = 3, minWords = 0 and minScore = 0.65.
C27_MarginRefinesScoreLength ==
  (/\ rc.pc = "done"
   /\ EmbeddingCalls(ragRev, rc.question, FALSE)
   /\ rc.out.kind = "ok"
   /\ rc.out.vec # <<>>)
  => /\ rc.ret.status = "returned"
     /\ \/ rc.ret.text = <<>>
        \/ LET other == retrieveContext(ragRev, knowledgeBase, rc.question,
                                        3, 0, Ratio(65, 100), rc.out)
           IN /\ other.status = "returned"
              /\ ~other.context.isNull
              /\ other.context.text = rc.ret.text

(***************************************************************************)
(* Properties of loadKnowledge, under SpecLoad.                            *)
(***************************************************************************)
\* C28: when a cache artifact exists, loadKnowledge returns with its
\* content as the store and leaves everything else untouched: it does not
\* read the source document, does not call the embedding backend and does
\* not write the artifact.
C28_CacheHitOnlyLoads ==
  [][(load.pc = "start" /\ cache.exists) =>
       /\ knowledgeBase' = cache.chunks
       /\ load'.pc = "done"
       /\ load'.outs = <<>>
       /\ cache' = cache
       /\ UNCHANGED <<ragRev, rc, vc, fc, rev, sessions, objs, req, now,
                      unanswered, appends, expired>>]_vars

\* A call has returned on the artifact that an earlier call of this run
\* wrote with one passage left out.
C28_Witness ==
  /\ fc.pc = "loads"
  /\ ~fc.first.exists
  /\ Len(fc.calls) >= 1
  /\ cache.exists
  /\ load.pc = "done"
  /\ load.outs = <<>>
  /\ Len(cache.chunks) = Len(DocChunks) - 1
  /\ knowledgeBase = cache.chunks

\* C29: on the cache-miss path the load assigns sequential ids to the kept
\* chunks: every chunk of the resulting store carries an id, and the ids
\* are distinct and consecutive in store order.
C29_KeptChunksNumbered ==
  (/\ fc.pc = "loads"
   /\ load.pc = "done"
   /\ ~ArtifactBefore(Len(fc.calls) + 1).exists)
  => /\ \A i \in 1..Len(knowledgeBase) : Len(knowledgeBase[i].id) = 1
     /\ \A i \in 2..Len(knowledgeBase) :
          knowledgeBase[i].id[1] = knowledgeBase[i - 1].id[1] + 1

\* C30: in every state after a load has completed, on the cache-hit and on
\* the cache-miss path, all embeddings of the store have the same length.
C30_OneDimension ==
  (fc.pc = "loads" /\ load.pc = "done") =>
    \A i, j \in 1..Len(knowledgeBase) :
      Len(knowledgeBase[i].embedding) = Len(knowledgeBase[j].embedding)

(***************************************************************************)
(* Properties of getEmbedding's length guard at its call sites.            *)
(***************************************************************************)
\* The calls made on a live question: retrieveContext's and the handler's.
LiveQuery == fc.site \in {"retrieveContext", "chat"}

\* C31: in the rag_b revision getEmbedding returns omitted, without a call
\* of the backend, when the cleaned text is shorter than the minimum; the
\* minimum is 5 for the passages loadKnowledge ingests and 1 for a live
\* question, so that a question whose cleaned text has at least one
\* character reaches the backend; and the text sent is never longer than
\* MAX_CHARS.
C31_MinimumBySite ==
  (ragRev = "rag_b" /\ fc.pc = "embedded") =>
    LET n == Len(CleanText(fc.text))
        called == EmbeddingCalls(ragRev, fc.text, fc.allowShort)
    IN /\ fc.site = "loadKnowledge" => (called <=> n >= 5)
       /\ LiveQuery => (called <=> n >= 1)
       /\ ~called => fc.ret.tag = "null"
       /\ called => Len(EmbeddingInput(ragRev, fc.text)) <= MAX_CHARS

(***************************************************************************)
(* chunkFAQs: the document split at its markers.                           *)
(***************************************************************************)
MaxSegments == 5

\* Whether the three characters of t from position i are "===".
Bars(t, i) ==
  i >= 1 /\ i + 2 <= Len(t) /\ \A k \in i..(i + 2) : t[k] = "="

\* The position of the last character of the match of /\n===.*?===\n/
\* that starts at position i, 0 when none starts there: a line break,
\* "===", the fewest characters of the same line, "===" and a line break.
LineMarkerEnd(t, i) ==
  LET closes == {j \in (i + 4)..(Len(t) - 3) :
                   /\ Bars(t, j)
                   /\ t[j + 3] = "\n"
                   /\ \A k \in (i + 4)..(j - 1) : t[k] # "\n"}
  IN IF i <= Len(t) /\ t[i] = "\n" /\ Bars(t, i + 1) /\ closes # {}
     THEN (CHOOSE j \in closes : \A k \in closes : j <= k) + 3
     ELSE 0

\* The ways /===\s*.*?\s*===/ matches from position i: w1 blanks, d
\* characters of one line, w2 blanks, between "===" and "===".
LooseWays(t, i) ==
  {w \in (0..Len(t)) \X (0..Len(t)) \X (0..Len(t)) :
     LET a == i + 3
         b == a + w[1]
         c == b + w[2]
         z == c + w[3]
     IN /\ Bars(t, i)
        /\ Bars(t, z)
        /\ \A k \in a..(b - 1) : IsSpace(t[k])
        /\ \A k \in b..(c - 1) : t[k] # "\n"
        /\ \A k \in c..(z - 1) : IsSpace(t[k])}

\* The way the matcher finds first: \s* takes the most it can, .*? the
\* least, the second \s* the most.
LooseFirst(ws) ==
  CHOOSE w \in ws :
    \A v \in ws :
      \/ w[1] > v[1]
      \/ w[1] = v[1] /\ w[2] < v[2]
      \/ w[1] = v[1] /\ w[2] = v[2] /\ w[3] >= v[3]

\* The position of the last character of the match of /===\s*.*?\s*===/
\* that starts at position i, 0 when none starts there.
LooseMarkerEnd(t, i) ==
  LET ws == LooseWays(t, i)
  IN IF ws = {} THEN 0
     ELSE LET w == LooseFirst(ws) IN i + 3 + w[1] + w[2] + w[3] + 2

\* src/src/rag.ts and the first part_003 revision split at marker lines,
\* the later part_003 revision at any "===" ... "===".
MarkerEnd(rv, t, i) ==
  IF rv = "rag_b" THEN LooseMarkerEnd(t, i) ELSE LineMarkerEnd(t, i)

\* text.split(marker): the pieces between the matches, found from left to
\* right; s is where the current piece starts, i the position tried.
RECURSIVE SplitMarkers(_, _, _, _)
SplitMarkers(rv, t, s, i) ==
  IF i > Len(t) THEN <<SubSeq(t, s, Len(t))>>
  ELSE LET z == MarkerEnd(rv, t, i)
       IN IF z > 0
          THEN <<SubSeq(t, s, i - 1)>> \o SplitMarkers(rv, t, z + 1, z + 1)
          ELSE SplitMarkers(rv, t, s, i + 1)

\* .map((c) => c.trim())
RECURSIVE Trimmed(_)
Trimmed(ps) == IF ps = <<>> THEN <<>> ELSE <<Trim(Head(ps))>> \o Trimmed(Tail(ps))

\* chunkFAQs
chunkFAQs(rv, text) ==
  SelectSeq(Trimmed(SplitMarkers(rv, text, 1, 1)), LAMBDA c : c # <<>>)

\* The pieces a document is written from: a letter, a blank, a line break
\* and "===".
Segments == { <<"a">>, <<" ">>, <<"\n">>, <<"=", "=", "=">> }

RECURSIVE Documents(_)
Documents(n) ==
  IF n = 0 THEN { <<>> }
  ELSE LET shorter == Documents(n - 1)
       IN shorter \cup {d \o s : d \in shorter, s \in Segments}

(***************************************************************************)
(* SpecChunk: chunkFAQs called on a document.                              *)
(***************************************************************************)
ChunkInit ==
  /\ ragRev \in RagRevs
  /\ knowledgeBase = <<>>
  /\ rc = NoCall
  /\ vc = NoCall
  /\ fc = NoCall
  /\ ServerIdle

ChunkCall ==
  /\ fc.pc = "idle"
  /\ \E doc \in Documents(MaxSegments) :
       fc' = [pc |-> "chunked", doc |-> doc, ret |-> chunkFAQs(ragRev, doc)]
  /\ UNCHANGED <<ragVars, rc, vc, serverVars>>

ChunkNext == ChunkCall

SpecChunk == ChunkInit /\ [][ChunkNext]_vars

\* A marker line: a line that, trimmed, opens and closes with "===".
MarkerLine(l) ==
  LET m == Trim(l) IN Len(m) >= 6 /\ Bars(m, 1) /\ Bars(m, Len(m) - 2)

HasMarkerLine(t) ==
  LET ls == SplitOn(t, "\n") IN \E k \in 1..Len(ls) : MarkerLine(ls[k])

\* C32: for every document no passage chunkFAQs returns is empty, none
\* opens or closes with whitespace, none holds a marker line, and a
\* document that is not blank and has no marker line gives one passage,
\* the trimmed document.
C32_PassagesBetweenMarkers ==
  fc.pc = "chunked" =>
    /\ \A k \in 1..Len(fc.ret) :
         /\ fc.ret[k] # <<>>
         /\ Trim(fc.ret[k]) = fc.ret[k]
         /\ ~HasMarkerLine(fc.ret[k])
    /\ (Trim(fc.doc) # <<>> /\ ~HasMarkerLine(fc.doc))
         => fc.ret = <<Trim(fc.doc)>>

(***************************************************************************)
(* Properties of concurrent requests on one session.                       *)
(***************************************************************************)
\* C33: in the latest revision the appends of two concurrent requests on
\* one session id do not interleave: in a session's message list every
\* user message that is not the last one is followed at once by an
\* assistant message, the one of its own request.
C33_AppendsNotInterleaved ==
  rev = "latest" =>
    \A o \in ObjIds :
      LET ms == objs[o].messages
      IN \A i \in 1..(Len(ms) - 1) :
           ms[i].role = "user" => ms[i + 1].role = "assistant"

(***************************************************************************)
(* SpecFrame: the request path over a loaded store.  The handler retrieves *)
(* the context, computes its top score, and either logs the question as    *)
(* unanswered or has an answer generated, which the hybrid revision hands  *)
(* to the validator and the latest one follows with a ranking for its log. *)
(***************************************************************************)
\* The store had the ranking sorted the store itself:
\* knowledgeBase.sort(by score against the question).
StoreSortedInPlace(kb, qEmbedding) ==
  LET byScore == SortByScore([i \in 1..Len(kb) |->
                   [pos |-> i,
                    score |-> cosineSimilarity(qEmbedding, kb[i].embedding)]])
  IN [k \in 1..Len(kb) |-> kb[byScore[k].pos]]

\* The store after knowledgeBase.map(...).sort(...): map builds a new array
\* of new objects and sort orders that array, so the store keeps its chunks
\* and their order.
StoreAfterRanking(kb, qEmbedding) == kb

\* The store after a ranking against what getEmbedding returned; without
\* an embedding no ranking is built.
StoreAfter(kb, q) ==
  IF q.tag = "vec" THEN StoreAfterRanking(kb, q.vec) ELSE kb

\* A passage of two paragraphs, "sol mar" and "pan luz uno dos": chunkFAQs
\* trims a passage and keeps the blank line inside it.
TwoParagraphs ==
  <<"s", "o", "l", " ", "m", "a", "r", "\n", "\n",
    "p", "a", "n", " ", "l", "u", "z", " ", "u", "n", "o", " ", "d", "o", "s">>

\* The chunks of SpecRank, a passage of one word, "horas", that scores 1
\* against the question <<1, 0>>, the second passage of the document
\* under the embedding that scores 0.650.. against it, and the passage of
\* two paragraphs.
FrameChunks ==
  RankChunks \cup {Chunk(QuestionText, <<1, 0>>), Chunk(DocChunks[2], <<6, 7>>),
                   Chunk(TwoParagraphs, <<1, 0>>)}

FrameStores == UNION {[1..k -> FrameChunks] : k \in 1..MaxRanked}

\* The backend's answers to the handler's own embedding call: it is a
\* function of the text, so it fails or repeats what it answered to
\* retrieveContext's call.
FrameOutcomes(q) ==
  IF q.tag = "vec" THEN {Failed("netfail"), Answered(q.vec)} ELSE RankOutcomes

FrameInit ==
  /\ ragRev = "rag_b"
  /\ knowledgeBase \in FrameStores
  /\ rc = NoCall
  /\ vc = NoCall
  /\ fc = NoCall
  /\ ServerIdle

\* const context = await retrieveContext(message, 2, 5, 0.65)
FrameRetrieved ==
  /\ fc.pc = "idle"
  /\ \E out \in RankOutcomes :
       LET q == getEmbedding(ragRev, QuestionText, TRUE, out)
           ret == retrieveContext(ragRev, knowledgeBase, QuestionText, 2, 5,
                                  Ratio(65, 100), out)
       IN /\ fc' = [pc |-> "retrieved", ctx |-> ret.context, q |-> q,
                    relevant |-> ret.relevant, before |-> knowledgeBase]
          /\ knowledgeBase' = StoreAfter(knowledgeBase, q)
  /\ UNCHANGED <<ragRev, rc, vc, serverVars>>

\* The handler's own embedding and top score, and the strict threshold.
FrameScored ==
  /\ fc.pc = "retrieved"
  /\ \E out \in FrameOutcomes(fc.q) :
       LET q == getEmbedding(ragRev, QuestionText, FALSE, out)
           topScore == TopScore(q)
       IN /\ fc' = [fc EXCEPT
                      !.pc = IF Blank(fc.ctx) \/ Lt(topScore, STRICT_THRESHOLD)
                             THEN "refusing" ELSE "answering",
                      !.q = q]
          /\ knowledgeBase' = StoreAfter(knowledgeBase, q)
  /\ UNCHANGED <<ragRev, rc, vc, serverVars>>

\* saveUnansweredMessage(sessionId, message, [context], topScore): the
\* function is handed strings and a number, not the store.
FrameLogged ==
  /\ fc.pc = "refusing"
  /\ fc' = [fc EXCEPT !.pc = "refused"]
  /\ unanswered' = saveUnansweredMessage(unanswered, "A", QuestionText,
                      IF fc.ctx.isNull \/ fc.ctx.text = <<>> THEN <<>>
                      ELSE <<fc.ctx.text>>,
                      TopScore(fc.q), now)
  /\ UNCHANGED <<ragVars, rc, vc, rev, cache, load, sessions, objs, req, now,
                 appends, expired>>

\* validateResponseHybrid(respuesta, context): the validator is handed two
\* strings and embeds them itself.
FrameValidated ==
  /\ fc.pc = "answering"
  /\ \E respOut \in {Failed("netfail"), Answered(<<1, 0>>)} :
       LET chunkOuts == [i \in 1..Len(splitContextChunks(Trim(fc.ctx.text)))
                           |-> Answered(<<1, 1>>)]
       IN vc' = [pc |-> "done",
                 ret |-> validateResponseHybrid(AnswerText, fc.ctx.text,
                                                respOut, chunkOuts)]
  /\ fc' = [fc EXCEPT !.pc = "validated"]
  /\ UNCHANGED <<ragVars, rc, serverVars>>

\* The ranking the latest handler builds for its log after the answer.
FrameRanked ==
  /\ fc.pc = "answering"
  /\ fc' = [fc EXCEPT !.pc = "answered"]
  /\ knowledgeBase' = StoreAfter(knowledgeBase, fc.q)
  /\ UNCHANGED <<ragRev, rc, vc, serverVars>>

FrameNext ==
  \/ FrameRetrieved
  \/ FrameScored
  \/ FrameLogged
  \/ FrameValidated
  \/ FrameRanked

SpecFrame == FrameInit /\ [][FrameNext]_vars

\* C34: once loaded the store is immutable: no operation of the request
\* path (retrieveContext, the handler's top score, the validator, the
\* logging of an unanswered question, the ranking for the log) changes the
\* store's chunks, their texts, their embeddings or their order.
C34_StoreImmutableAfterLoad ==
  [][knowledgeBase' = knowledgeBase]_vars

\* A request answered over a store whose ranking against the question is
\* not the store's order.
C34_Witness ==
  /\ fc.pc = "answered"
  /\ fc.q.tag = "vec"
  /\ knowledgeBase = fc.before
  /\ StoreSortedInPlace(knowledgeBase, fc.q.vec) # knowledgeBase

\* session.messages.slice(-1), as request r's handler reads it when it
\* builds finalMessages.
lastMessages(r) ==
  LET ms == objs[req[r].obj].messages
  IN SubSeq(ms, Len(ms), Len(ms))

\* C35: in the latest revision the one conversation message the handler
\* sends to the generation backend after the system prompt,
\* session.messages.slice(-1), is the user message of the request it is
\* handling, whatever other requests on the session did meanwhile.
C35_GenerationSeesOwnMessage ==
  [][\A r \in ReqIds :
       (rev = "latest" /\ req[r].pc = "embed2" /\ req'[r].pc = "llm")
       => /\ Len(lastMessages(r)) = 1
          /\ lastMessages(r)[1].role = "user"
          /\ lastMessages(r)[1].content = Plain(req[r].msg)]_vars

\* C36: whenever the latest handler calls the generation backend, the
\* best-scoring passage of the context it hands to the prompt scores at
\* least STRICT_THRESHOLD: the passage that passed the threshold is one of
\* the context.
C36_ContextJustifiesAnswer ==
  fc.pc \in {"answering", "validated", "answered"} =>
    /\ fc.relevant # <<>>
    /\ Geq(fc.relevant[1].score, STRICT_THRESHOLD)

(***************************************************************************)
(* Properties of the validator's pass-through.                             *)
(***************************************************************************)
\* C37: with a context that is not blank validateResponseHybrid returns the
\* answer unmodified only if the answer is the canonical refusal (outer
\* blanks aside) or the maximum similarity of the method in use, cosine or
\* Jaccard, reached that method's accept threshold.
C37_PassThroughOnlyOnDecision ==
  (vc.pc = "done" /\ Trim(vc.context) # <<>>
     /\ vc.ret.text = Plain(vc.respuesta)) =>
    \/ Trim(vc.respuesta) = REFUSAL
    \/ vc.ret.method = "embedding" /\ Geq(vc.ret.score, SIM_ACCEPT)
    \/ vc.ret.method = "lexical" /\ Geq(vc.ret.score, JACCARD_ACCEPT)

\* The texts of the passages retrieveContext selected, in their order.
SelectedTexts == [i \in 1..Len(fc.relevant) |-> fc.relevant[i].text]

\* C38: splitting the context recovers what retrieval selected: for every
\* retrieval result splitContextChunks of the passages joined with a blank
\* line is the list of those passages, the same count in the same order.
C38_SplitRecoversPassages ==
  (fc.pc # "idle" /\ ~fc.ctx.isNull) =>
    /\ fc.ctx.text = JoinBlank(SelectedTexts)
    /\ splitContextChunks(fc.ctx.text) = SelectedTexts

(***************************************************************************)
(* SpecStrict: the strict-refusal revision of the server (part_000:1-145)  *)
(* over src/src/rag.ts: without a usable context the handler answers with  *)
(* a canned refusal and does not call the generation backend.              *)
(***************************************************************************)
STRICT_REFUSAL == <<"#lo_siento">>

\* The handler up to the await of retrieveContext, which returns null at
\* once on an empty store.
StrictChat(r) ==
  /\ rev = "strict"
  /\ Listening
  /\ Arrives(r)
  /\ \E sessionId \in RequestIds, message \in ChatMessages :
       IF sessionId = "" \/ message = <<>>
       THEN /\ req' = [req EXCEPT ![r] =
                         Responded(Held(r, sessionId, message, 0), 400,
                                   MISSING_FIELDS, FALSE)]
            /\ UNCHANGED <<sessions, objs, appends>>
       ELSE LET user == ChatMessage("user", message, sessionId, "user")
                b == Begun(sessionId, message, user)
                rq == Held(r, sessionId, message, b.o)
            IN /\ sessions' = b.sessions
               /\ objs' = b.objs
               /\ appends' = [appends EXCEPT ![sessionId] = Append(@, user)]
               /\ req' = [req EXCEPT ![r] =
                            IF knowledgeBase = <<>>
                            THEN [FoundEmpty(rq) EXCEPT !.pc = "refuse"]
                            ELSE [rq EXCEPT !.pc = "embed"]]
  /\ UNCHANGED <<ragVars, rc, vc, fc, rev, cache, load, now, unanswered, expired>>

\* The embedding of the question comes back and retrieveContext returns,
\* or raises.
StrictRetrieved(r) ==
  /\ rev = "strict"
  /\ req[r].pc = "embed"
  /\ \E out \in EmbedOutcomes(EmbeddingInput(ragRev, req[r].msg)) :
       LET ret == RankAndSelect(ragRev, knowledgeBase, req[r].msg,
                                DefaultArgs.topN, DefaultArgs.minWords,
                                DefaultArgs.minScore, out)
       IN req' = [req EXCEPT ![r] =
                    IF ret.status = "raised"
                    THEN [@ EXCEPT !.pc = "raised", !.obj = 0,
                                   !.duringLoad = @ \/ LoadRunning]
                    ELSE IF Blank(ret.context)
                    THEN [Retrieved(@, ret) EXCEPT !.pc = "refuse"]
                    ELSE [Retrieved(@, ret) EXCEPT !.pc = "llm",
                                                   !.called = TRUE]]
  /\ objs' = Collected(sessions, objs, req')
  /\ UNCHANGED <<ragVars, rc, vc, fc, rev, cache, load, sessions, now, unanswered,
                 appends, expired>>

\* if (!context?.trim()) return res.json({textResponse: ..., contextFound:
\* false}): the refusal is returned and nothing is pushed.
StrictRefused(r) ==
  /\ rev = "strict"
  /\ req[r].pc = "refuse"
  /\ req' = [req EXCEPT ![r] =
               [Responded(@, 200, STRICT_REFUSAL, FALSE)
                  EXCEPT !.duringLoad = @ \/ LoadRunning]]
  /\ objs' = Collected(sessions, objs, req')
  /\ UNCHANGED <<ragVars, rc, vc, fc, rev, cache, load, sessions, now, unanswered,
                 appends, expired>>

\* The generation backend comes back: the answer is pushed and returned.
StrictGenerated(r) ==
  /\ rev = "strict"
  /\ req[r].pc = "llm"
  /\ \E reply \in LLMReplies :
       LET g == generateAIResponse(reply)
           m == ChatMessage("assistant", g.text, req[r].sid, g.origin)
       IN /\ req' = [req EXCEPT ![r] =
                       [Responded(@, 200, g.text, TRUE)
                          EXCEPT !.duringLoad = @ \/ LoadRunning,
                                 !.reply = reply.kind]]
          /\ objs' = Collected(sessions, Push(objs, req[r].obj, m), req')
          /\ appends' = [appends EXCEPT ![req[r].sid] = Append(@, m)]
  /\ UNCHANGED <<ragVars, rc, vc, fc, rev, cache, load, sessions, now, unanswered,
                 expired>>

StrictInit ==
  /\ rev = "strict"
  /\ ragRev = "rag_ts"
  /\ cache \in Caches(ragRev)
  /\ knowledgeBase = <<>>
  /\ load = [pc |-> "start", i |-> 0, outs |-> <<>>]
  /\ sessions = [s \in SessionIds |-> 0]
  /\ objs = [o \in ObjIds |-> NoObj]
  /\ req = [r \in ReqIds |-> NewReq]
  /\ now = 0
  /\ unanswered = NoLog
  /\ appends = [s \in SessionIds |-> <<>>]
  /\ expired = {}
  /\ rc = NoCall
  /\ vc = NoCall
  /\ fc = NoCall

StrictNext ==
  \/ LoadKnowledge
  \/ LoadRead
  \/ LoadEmbedded
  \/ LoadPaused
  \/ Tick
  \/ \E r \in ReqIds : StrictChat(r)
  \/ \E r \in ReqIds : StrictRetrieved(r)
  \/ \E r \in ReqIds : StrictRefused(r)
  \/ \E r \in ReqIds : StrictGenerated(r)

SpecStrict == StrictInit /\ [][StrictNext]_vars

\* A request that passed the handler's checks of its input.
Validated(rq) ==
  rq.sid # "" /\ rq.msg # <<>> /\ (rev = "latest" => ~Rejected(rq))

\* C39: every chat request that passes input validation appends one user
\* message and one assistant message to its session, and the assistant
\* message stored is the text returned to the client, on every path: when
\* the handler starts on the request the user's message is the one thing
\* appended or is followed by the reply alone, and when it answers, the
\* last message appended to the session is the assistant's, with the text
\* returned.
C39_ExchangeRecorded ==
  [][\A r \in ReqIds :
       /\ (req[r].pc = "new" /\ req'[r].pc # "new" /\ Validated(req'[r]))
          => LET a == appends[req'[r].sid]
                 b == appends'[req'[r].sid]
             IN /\ Len(b) > Len(a)
                /\ SubSeq(b, 1, Len(a)) = a
                /\ b[Len(a) + 1].role = "user"
                /\ b[Len(a) + 1].content = Plain(req'[r].msg)
                /\ Len(b) = Len(a) + (IF req'[r].pc = "done" THEN 2 ELSE 1)
       /\ (req[r].pc # "done" /\ req'[r].pc = "done" /\ Validated(req'[r]))
          => LET b == appends'[req'[r].sid]
             IN /\ b # <<>>
                /\ b[Len(b)].role = "assistant"
                /\ b[Len(b)].content = req'[r].resp.text
                /\ req[r].pc # "new" => Len(b) = Len(appends[req'[r].sid]) + 1]_vars

(***************************************************************************)
(* Properties of the cache artifact of an empty ingestion.                 *)
(***************************************************************************)
\* C40: loadKnowledge writes the cache artifact only when it kept at least
\* one chunk: a load in which every embedding was omitted writes nothing,
\* and no later call of loadKnowledge takes an empty store from an
\* artifact that a load wrote.
C40_NoEmptyArtifact ==
  [][/\ cache' # cache => (knowledgeBase' # <<>> /\ cache'.chunks # <<>>)
     /\ (load.pc = "start" /\ cache.exists /\ cache # fc.first
           /\ load'.pc = "done")
          => knowledgeBase' # <<>>]_vars
=============================================================================
